---- MODULE Spec2Model ----
(***************************************************************************)
(* alpha_solve: the context-propagation engine (Project.updateContext and  *)
(* its helpers), the inbound packet handler (PacketHandlerService) and the *)
(* echo-suppression cache of the application shell (App).                  *)
(*                                                                         *)
(* Cells are heap objects: a stack frame of a suspended propagation run    *)
(* and the `cell` local of a suspended onCellUpdated hold object and array *)
(* references across executor calls, exactly as the TypeScript does.       *)
(* Every action is one turn of the event loop: it runs from one            *)
(* suspension point (an awaited executor call) to the next.                *)
(***************************************************************************)
EXTENDS Integers, Sequences, FiniteSets, TLC

VARIABLES
    heap,        \* Seq of cell objects; an object reference is an index
    project,     \* the Project object App and the handler share
    registry,    \* PythonExecutorService.functionMap, in insertion order
    ready,       \* PythonExecutorService.isReady()
    runs,        \* suspended async activations (updateContext callers)
    cellStates,  \* App.cellStates: cell id -> fingerprint
    isProcessingIncomingPacket,
    isConnected, \* App.isConnected signal
    outbox,      \* packets handed to PacketManagerService.sendPacket
    errors,      \* number of emissions on PacketHandlerService.errors$
    nPackets,    \* inbound packets still to come
    nCalls,      \* local calls (onCellUpdated, updateContext) made so far
    quiet,       \* history: ids updated by an inbound CellUpdate and not
                 \* edited locally since
    ev,          \* history: what the last turn of the event loop that ran code
                 \* of the project, the editor or the packet handler did
    ws,          \* PacketManagerService.ws: a WebSocket object, 0 for null
    sockets,     \* the WebSocket objects created so far
    reconnectAttempts,
    reconnectTimeout,  \* the pending timer's delay, if one is pending
    delays,      \* history: the delays of the reconnects scheduled since the
                 \* last open event or call of connect / disconnect by the App
    transportErrors  \* number of emissions on PacketManagerService.errors$

vars == <<heap, project, registry, ready, runs, cellStates,
          isProcessingIncomingPacket, isConnected, outbox, errors,
          nPackets, nCalls, quiet, ev, ws, sockets, reconnectAttempts,
          reconnectTimeout, delays, transportErrors>>

\* the fields of PacketManagerService
pmVars == <<ws, sockets, reconnectAttempts, reconnectTimeout, delays, transportErrors>>

(***************************************************************************)
(* Bounds of the model.                                                    *)
(***************************************************************************)
MaxRuns == 1        \* activations suspended at the same time
MaxCalls == 1       \* local calls per behaviour
MaxPackets == 1     \* inbound packets per behaviour of the application
MaxInbound == 2     \* inbound packets per behaviour of the packet handler
MaxDepth == 2       \* folders nested in a cell tree that is serialized
MaxSockets == 7     \* WebSocket objects created per behaviour
MaxCandidates == 4  \* functions registered when one resolution is studied
MaxFunctions == 1   \* registered functions in the application model

(***************************************************************************)
(* Values.                                                                 *)
(***************************************************************************)
Texts == {"a", "b", "c"}            \* latex / content / name strings
Ids == {"c1", "c2", "c3", "c4", "c5", "c6"}
UnknownId == "zz"                   \* an id that is in no tree
FunctionNames == <<"f1", "f2", "f3", "f4", "f5", "f6">>
PriorityIndices == {2, 5, 9}         \* meta results' index, function selection
EngineIndices == {2, 5}             \* the same, for the engine alone
AppIndices == {2}                   \* the same, where one function is registered
EditTexts == {"b"}                  \* what a local edit types
SelectIds == {"c3", "c5"}           \* cells resolved one at a time (SpecSelect)
EmitIds == {"c1", "c3", "c6"}       \* cells whose cellUpdated event fires unedited

None == <<>>
Some(v) == <<v>>
IsSome(o) == o # <<>>
Get(o) == o[1]

\* context.model.ts createContext(): a Context with no variables.  A Context
\* is modelled by the set of its variables' names.
createContext == {}

Min(a, b) == IF a < b THEN a ELSE b
Max(a, b) == IF a > b THEN a ELSE b

(***************************************************************************)
(* Dates.  A Date is an instant or the Invalid Date; of the instants the   *)
(* model keeps two, the time the tree was built and a later "now".  An ISO *)
(* string is <<"Z", instant>>; any other string is not a date.             *)
(***************************************************************************)
Epoch == 0
Now == 1            \* new Date()
InvalidDate == -1   \* new Date(s) of a string s that is no date, or of undefined
Instants == {Epoch, Now}
Malformed == <<"?", 0>>

\* Date.prototype.toISOString: defined for the instants, throws a RangeError
\* for the Invalid Date
toISOString(d) == <<"Z", d>>
CanISOString(d) == d # InvalidDate

\* new Date(string)
newDate(str) == IF str[1] = "Z" THEN str[2] ELSE InvalidDate

(***************************************************************************)
(* Cells (cell.model.ts).  `text` is latex, content or name by type;       *)
(* ctx and sol are optional (undefined = None); kids are object refs.      *)
(***************************************************************************)
EquationCell(id, latex, ctx, sol) ==
    [id |-> id, type |-> "equation", text |-> latex, ctx |-> ctx, sol |-> sol,
     kids |-> <<>>, createdAt |-> Epoch, updatedAt |-> Epoch]
FolderCell(id, name, kids) ==
    [id |-> id, type |-> "folder", text |-> name, ctx |-> None, sol |-> None,
     kids |-> kids, createdAt |-> Epoch, updatedAt |-> Epoch]
NoteCell(id, content) ==
    [id |-> id, type |-> "note", text |-> content, ctx |-> None, sol |-> None,
     kids |-> <<>>, createdAt |-> Epoch, updatedAt |-> Epoch]

\* base = { id, createdAt: new Date(data.createdAt), updatedAt: ... }
\* (CellSerializer.deserialize lines 99-103)
Dated(c, createdAt, updatedAt) ==
    [c EXCEPT !.createdAt = createdAt, !.updatedAt = updatedAt]

\* CellSerializer.createEquationCell: empty context, no solutions
createEquationCell(id, latex) == EquationCell(id, latex, Some(createContext), Some(<<>>))

(***************************************************************************)
(* Array references.  project.cells is "top"; a folder's cells array is    *)
(* named by the folder object; "snap" is an array object that is no longer *)
(* reachable from the project (App.forceUIUpdate replaced project.cells by *)
(* a copy, or ProjectSync replaced the project) and so never changes again.*)
(***************************************************************************)
TopRef == [k |-> "top", o |-> 0, s |-> <<>>]
FolderRef(o) == [k |-> "folder", o |-> o, s |-> <<>>]
SnapRef(s) == [k |-> "snap", o |-> 0, s |-> s]

ArrayOf(h, pc, ref) ==
    CASE ref.k = "top" -> pc
      [] ref.k = "folder" -> h[ref.o].kids
      [] OTHER -> ref.s

(***************************************************************************)
(* Project.findCellWithParent / PacketHandlerService.findCellWithParentArray*)
(* (the two are the same search): pre-order, first match.                  *)
(***************************************************************************)
NotFound == [found |-> FALSE, arr |-> TopRef, index |-> 0, cell |-> 0]

\* a search that looks into a folder before it looks at the folder
RECURSIVE FindFromInside(_, _, _, _, _)
FindFromInside(h, pc, ref, i, cellId) ==
    LET a == ArrayOf(h, pc, ref) IN
    IF i > Len(a) THEN NotFound
    ELSE LET f == IF h[a[i]].type = "folder"
                  THEN FindFromInside(h, pc, FolderRef(a[i]), 1, cellId)
                  ELSE NotFound
         IN IF f.found THEN f
            ELSE IF h[a[i]].id = cellId
                 THEN [found |-> TRUE, arr |-> ref, index |-> i, cell |-> a[i]]
            ELSE FindFromInside(h, pc, ref, i + 1, cellId)

RECURSIVE FindFrom(_, _, _, _, _)
FindFrom(h, pc, ref, i, cellId) ==
    LET a == ArrayOf(h, pc, ref) IN
    IF i > Len(a) THEN NotFound
    ELSE IF h[a[i]].id = cellId
         THEN [found |-> TRUE, arr |-> ref, index |-> i, cell |-> a[i]]
    ELSE IF h[a[i]].type = "folder"
         THEN LET f == FindFrom(h, pc, FolderRef(a[i]), 1, cellId) IN
              IF f.found THEN f ELSE FindFrom(h, pc, ref, i + 1, cellId)
    ELSE FindFrom(h, pc, ref, i + 1, cellId)

findCellWithParent(h, pc, cellId) == FindFrom(h, pc, TopRef, 1, cellId)

\* Project.findCellRecursive (lines 59-72), from the i-th cell of array a on:
\* the cell object, 0 for null
RECURSIVE findCellRecursive(_, _, _, _)
findCellRecursive(h, a, i, cellId) ==
    IF i > Len(a) THEN 0
    ELSE IF h[a[i]].id = cellId THEN a[i]
    ELSE IF h[a[i]].type = "folder"
         THEN LET found == findCellRecursive(h, h[a[i]].kids, 1, cellId) IN
              IF found # 0 THEN found ELSE findCellRecursive(h, a, i + 1, cellId)
    ELSE findCellRecursive(h, a, i + 1, cellId)

\* Project.findCell
findCell(h, pc, cellId) ==
    LET cell == findCellRecursive(h, pc, 1, cellId)
    IN [found |-> cell # 0, cell |-> cell]

(***************************************************************************)
(* Project.getPreviousCellContext: nearest earlier equation cell of the    *)
(* same array that has a stored context, else the empty Context.           *)
(***************************************************************************)
\* a scan that looks at the cell just before the index only
getPreviousCellContextAdjacent(h, a, currentIndex) ==
    IF currentIndex <= 1 THEN createContext
    ELSE LET prevCell == h[a[currentIndex - 1]] IN
         IF prevCell.type = "equation" /\ IsSome(prevCell.ctx)
         THEN Get(prevCell.ctx)
         ELSE createContext

RECURSIVE getPreviousCellContext(_, _, _)
getPreviousCellContext(h, a, currentIndex) ==
    IF currentIndex <= 1 THEN createContext
    ELSE LET prevCell == h[a[currentIndex - 1]] IN
         IF prevCell.type = "equation" /\ IsSome(prevCell.ctx)
         THEN Get(prevCell.ctx)
         ELSE getPreviousCellContext(h, a, currentIndex - 1)

(***************************************************************************)
(* Function Resolution: Project.updateCellContext.                         *)
(*                                                                         *)
(* The Function Executor is external.  A meta-call answers with no result  *)
(* (callMetaFunction caught an error) or with {useResult, index}; a main   *)
(* call answers with no result or with {newContext?, visibleSolutions?}.   *)
(* A returned newContext is either the input extended by a variable named  *)
(* after the cell's text (the `solve` of the end-to-end scenario) or a     *)
(* Context holding that variable alone.                                    *)
(***************************************************************************)
MetaOutcomes(indices) ==
    {[ok |-> FALSE, use |-> FALSE, index |-> 2], [ok |-> TRUE, use |-> FALSE, index |-> 2]}
    \cup {[ok |-> TRUE, use |-> TRUE, index |-> i] : i \in indices}

AllMainOutcomes ==
    {[ok |-> FALSE, ctx |-> "none", sol |-> FALSE],
     [ok |-> TRUE, ctx |-> "none", sol |-> FALSE],
     [ok |-> TRUE, ctx |-> "extend", sol |-> TRUE],
     [ok |-> TRUE, ctx |-> "replace", sol |-> FALSE]}

MainOutcomes(kinds) == {o \in AllMainOutcomes : o.ctx \in kinds}

\* CellFunctionResult.newContext as the executor computes it from its input
newContext(o, latex, inputContext) ==
    IF o.ctx = "extend" THEN inputContext \cup {latex} ELSE {latex}

\* usableResults.sort((a, b) => a.result.index - b.result.index): Array.sort
\* is stable, so an element goes after every element that is not larger.
RECURSIVE InsertUnstable(_, _)
InsertUnstable(sorted, x) ==
    IF sorted = <<>> THEN <<x>>
    ELSE IF Head(sorted).index < x.index
         THEN <<Head(sorted)>> \o InsertUnstable(Tail(sorted), x)
         ELSE <<x>> \o sorted

RECURSIVE InsertByIndex(_, _)
InsertByIndex(sorted, x) ==
    IF sorted = <<>> THEN <<x>>
    ELSE IF Head(sorted).index <= x.index
         THEN <<Head(sorted)>> \o InsertByIndex(Tail(sorted), x)
         ELSE <<x>> \o sorted

RECURSIVE SortByIndex(_)
SortByIndex(s) ==
    IF s = <<>> THEN <<>>
    ELSE InsertByIndex(SortByIndex(SubSeq(s, 1, Len(s) - 1)), s[Len(s)])

\* metaResults.filter(mr => mr.result.useResult)
usableResults(metaResults) == SelectSeq(metaResults, LAMBDA mr : mr.use)

\* usableResults[0] after the sort
selectedFunction(metaResults) == SortByIndex(usableResults(metaResults))[1]

\* the `for (const func of availableFunctions)` loop goes on after call k
\* whatever that call answered
MoreMetaCallsAbort(k, n, o) == k < n /\ o.ok
MoreMetaCalls(k, n, o) == k < n

\* if (execResult.result) metaResults.push(...)
pushMetaResult(metaResults, functionName, o) ==
    IF o.ok THEN Append(metaResults, [functionName |-> functionName, use |-> o.use,
                                      index |-> o.index])
    ELSE metaResults

(***************************************************************************)
(* A suspended updateCellContext: the cell object, the input Context, the  *)
(* number k of meta-calls issued, the metaResults collected, and - once    *)
(* the main call is out - the selected function and the latex it was given.*)
(* `fails` counts the meta-calls that gave no result (history).            *)
(***************************************************************************)
NewResolution(cell, inputContext) ==
    [cell |-> cell, input |-> inputContext, phase |-> "meta", k |-> 1,
     meta |-> <<>>, fails |-> 0, sel |-> "", latex |-> ""]

\* What one answer of the executor makes updateCellContext do: issue the next
\* call ("call"), or finish ("return") with the Context it returns, the
\* Context it stores in the cell (if any) and the solutions it stores (if any).
ResolutionReturn(res, value, store, sol, usable, mainCalled, mainOk) ==
    [kind |-> "return", res |-> res, value |-> value, store |-> store, sol |-> sol,
     usable |-> usable, mainCalled |-> mainCalled, mainOk |-> mainOk]
\* an updateCellContext that returns where it should await its next call
ResolutionCallNotAwaited(res) ==
    ResolutionReturn(res, res.input, None, None, 0, FALSE, FALSE)

ResolutionCall(res) ==
    [kind |-> "call", res |-> res, value |-> {}, store |-> None, sol |-> None,
     usable |-> 0, mainCalled |-> FALSE, mainOk |-> FALSE]

\* lines 242-262: after the last meta-call
AfterMetaCalls(res, latex) ==
    IF res.meta = <<>> THEN
        ResolutionReturn(res, res.input, None, None, 0, FALSE, FALSE)
    ELSE IF usableResults(res.meta) = <<>> THEN
        ResolutionReturn(res, res.input, Some(res.input), None, 0, FALSE, FALSE)
    ELSE ResolutionCall([res EXCEPT !.phase = "main",
                                    !.sel = selectedFunction(res.meta).functionName,
                                    !.latex = latex])

\* lines 226-240: one answer to a meta-call
OnMetaResult(res, reg, o, latex) ==
    LET r2 == [res EXCEPT !.meta = pushMetaResult(res.meta, reg[res.k], o),
                          !.fails = IF o.ok THEN @ ELSE @ + 1]
    IN IF MoreMetaCalls(res.k, Len(reg), o)
       THEN ResolutionCall([r2 EXCEPT !.k = @ + 1])
       ELSE AfterMetaCalls(r2, latex)

\* lines 260-288: the answer to the main call
OnMainResult(res, o) ==
    LET n == Len(usableResults(res.meta)) IN
    IF o.ok THEN
        LET ctx == IF o.ctx = "none" THEN res.input
                   ELSE newContext(o, res.latex, res.input)
        IN ResolutionReturn(res, ctx, Some(ctx),
                            IF o.sol THEN Some(<<res.latex>>) ELSE None, n, TRUE, TRUE)
    ELSE ResolutionReturn(res, res.input, None, None, n, TRUE, FALSE)

(***************************************************************************)
(* The propagation walk: Project.propagateContext and                      *)
(* Project.propagateContextWithContext.  A frame is one activation of      *)
(* either loop: its array, its index i and its currentContext.  History    *)
(* fields: `pre` the currentContext at the entry of the first folder       *)
(* walked since the last equation cell, `ret` the Context the last         *)
(* updateCellContext of this loop returned (the seed before the first).    *)
(***************************************************************************)
NewFrame(ref, startIndex, context) ==
    [arr |-> ref, i |-> startIndex, ctx |-> context, pre |-> None, ret |-> context]

\* a walk that begins at the head of the array whatever the start index
propagateContextFromHead(h, pc, ref, startIndex) ==
    NewFrame(ref, 1, createContext)

\* propagateContext, line 158: the seed comes from the previous cells
propagateContext(h, pc, ref, startIndex) ==
    NewFrame(ref, startIndex, getPreviousCellContext(h, ArrayOf(h, pc, ref), startIndex))

\* propagateContextWithContext, line 184: the seed is handed in
propagateContextWithContext(ref, startIndex, context) ==
    NewFrame(ref, startIndex, context)

\* lines 166-170 and 191-193: after the folder's walk the loop goes on with
\* its own currentContext ("context doesn't expand out")
ResumeAfterFolderLeak(parent, child) == [parent EXCEPT !.ctx = child.ctx]
ResumeAfterFolder(parent, child) == parent

\* lines 165 and 190: currentContext = await this.updateCellContext(...)
AdoptContextStale(f, value) == f
AdoptContext(f, value) == [f EXCEPT !.ctx = value]

\* the loop's i++ after an equation cell, with the history fields
AfterEquation(f, value) ==
    [AdoptContext(f, value) EXCEPT !.i = f.i + 1, !.ret = value, !.pre = None]

\* the loop's i++ when it enters a folder
EnterFolder(f) ==
    [f EXCEPT !.i = f.i + 1, !.pre = IF IsSome(f.pre) THEN f.pre ELSE Some(f.ctx)]

(***************************************************************************)
(* Walk runs the loops from the top frame until updateCellContext issues   *)
(* an executor call (done = FALSE: `cell` is the equation cell, `input` its*)
(* inputContext) or the outermost loop ends (done = TRUE).  With no        *)
(* registered function updateCellContext returns its input at once (lines  *)
(* 219-221), so the walk goes on; `passed` lists those cells.              *)
(***************************************************************************)
RECURSIVE Walk(_, _, _, _, _)
Walk(h, pc, reg, frames, passed) ==
    IF frames = <<>> THEN
        [done |-> TRUE, frames |-> <<>>, cell |-> 0, input |-> {}, passed |-> passed]
    ELSE
        LET d == Len(frames)
            f == frames[d]
            a == ArrayOf(h, pc, f.arr)
        IN
        IF f.i > Len(a) THEN
            IF d = 1 THEN Walk(h, pc, reg, <<>>, passed)
            ELSE Walk(h, pc, reg,
                      [SubSeq(frames, 1, d - 1) EXCEPT
                          ![d - 1] = ResumeAfterFolder(frames[d - 1], f)],
                      passed)
        ELSE
            LET c == h[a[f.i]] IN
            CASE c.type = "equation" ->
                    IF reg = <<>> THEN
                        Walk(h, pc, reg, [frames EXCEPT ![d] = AfterEquation(f, f.ctx)],
                             Append(passed, [cell |-> a[f.i], input |-> f.ctx]))
                    ELSE [done |-> FALSE, frames |-> frames, cell |-> a[f.i],
                          input |-> f.ctx, passed |-> passed]
              [] c.type = "folder" ->
                    Walk(h, pc, reg,
                         Append([frames EXCEPT ![d] = EnterFolder(f)],
                                propagateContextWithContext(FolderRef(a[f.i]), 1, f.ctx)),
                         passed)
              [] OTHER ->
                    Walk(h, pc, reg, [frames EXCEPT ![d].i = f.i + 1], passed)

(***************************************************************************)
(* History: the equation cells a walk started at index i of an array must  *)
(* resolve, in document order, when nothing changes the tree meanwhile.    *)
(***************************************************************************)
RECURSIVE EquationsFrom(_, _, _)
EquationsFrom(h, a, i) ==
    IF i > Len(a) THEN <<>>
    ELSE LET c == h[a[i]] IN
         (CASE c.type = "equation" -> <<a[i]>>
            [] c.type = "folder" -> EquationsFrom(h, c.kids, 1)
            [] OTHER -> <<>>) \o EquationsFrom(h, a, i + 1)

(***************************************************************************)
(* App: the echo-suppression cache (part_008 = app.ts).                    *)
(***************************************************************************)
\* App.serializeCellState: JSON of the type and the latex / content / name
serializeCellState(c) == <<c.type, c.text>>

\* App.hasCellChanged
hasCellChanged(cs, c) == cs[c.id] # Some(serializeCellState(c))

\* App.updateCellStateCache
updateCellStateCache(cs, c) == [cs EXCEPT ![c.id] = Some(serializeCellState(c))]

\* App.cacheCellStates: the cell, then its children, then its later siblings
RECURSIVE cacheCellStates(_, _, _, _)
cacheCellStates(cs, h, a, i) ==
    IF i > Len(a) THEN cs
    ELSE LET c == h[a[i]]
             cs1 == updateCellStateCache(cs, c)
             cs2 == IF c.type = "folder" THEN cacheCellStates(cs1, h, c.kids, 1) ELSE cs1
         IN cacheCellStates(cs2, h, a, i + 1)

NoCellStates == [id \in Ids |-> None]

\* App.rebuildCellStateCache
rebuildCellStateCache(h, pc) == cacheCellStates(NoCellStates, h, pc, 1)

(***************************************************************************)
(* context.model.ts: Variable.toJSON / Variable.fromJSON and               *)
(* serializeContext / deserializeContext.  A Variable is modelled by its   *)
(* name, its JSON by a record with that name; the variables array by the   *)
(* set of its elements.                                                    *)
(***************************************************************************)
toJSON(v) == [name |-> v]
fromJSON(data) == data.name
serializeContext(context) == [variables |-> {toJSON(v) : v \in context}]
deserializeContext(data) == {fromJSON(v) : v \in data.variables}

(***************************************************************************)
(* CellSerializer.serialize: JSON data; a field that is undefined is       *)
(* dropped by JSON.stringify (None).  The call throws where a date of the  *)
(* cell, or of a cell below it, is the Invalid Date (CanSerialize is       *)
(* false); serialize is its result where it does not throw.                *)
(***************************************************************************)
RECURSIVE CanSerialize(_, _)
CanSerialize(h, o) ==
    /\ CanISOString(h[o].createdAt)
    /\ CanISOString(h[o].updatedAt)
    /\ \A j \in 1..Len(h[o].kids) : CanSerialize(h, h[o].kids[j])

RECURSIVE serialize(_, _)
serialize(h, o) ==
    LET c == h[o]
        base == [id |-> c.id, type |-> c.type,
                 createdAt |-> toISOString(c.createdAt),
                 updatedAt |-> toISOString(c.updatedAt),
                 latex |-> None, name |-> None, content |-> None, cells |-> None,
                 context |-> None, solutions |-> None]
    IN
    CASE c.type = "equation" ->
            [base EXCEPT !.latex = Some(c.text),
                         !.context = IF IsSome(c.ctx)
                                     THEN Some(serializeContext(Get(c.ctx)))
                                     ELSE None,
                         !.solutions = c.sol]
      [] c.type = "folder" ->
            [base EXCEPT !.name = Some(c.text),
                         !.cells = Some([j \in 1..Len(c.kids) |->
                                            serialize(h, c.kids[j])])]
      [] OTHER ->
            [base EXCEPT !.content = Some(c.text)]

\* PacketFactory.createCellUpdate
createCellUpdate(cellId, cell) == [type |-> "CellUpdate", cellId |-> cellId, cell |-> cell]

\* App.sendCellUpdatePacket (part_008 lines 457-466): a throw of serialize is
\* caught and logged, and nothing is sent
sendCellUpdatePacket(ob, h, o) ==
    IF CanSerialize(h, o) THEN Append(ob, createCellUpdate(h[o].id, serialize(h, o)))
    ELSE ob

(***************************************************************************)
(* Suspended activations.  kind "local" is App.onCellUpdated awaiting      *)
(* project.updateContext (it holds `cell` and `hasChanged`); the others    *)
(* are bare updateContext calls whose promise nobody awaits.  `gen` names  *)
(* the Project object the call was made on.  History: `plan` the equation  *)
(* cells to resolve as the tree stood at the start, `resolved` the cells   *)
(* resolved so far, `clean` no packet has changed the tree since, `from`   *)
(* the parentArray and index that findCellWithParent gave updateContext.    *)
(***************************************************************************)
NewRun(kind, h, pc, gen, found, held, changed) ==
    [kind |-> kind, frames |-> <<propagateContext(h, pc, found.arr, found.index)>>,
     res |-> None, held |-> held, hasChanged |-> changed, gen |-> gen,
     clean |-> TRUE,
     plan |-> EquationsFrom(h, ArrayOf(h, pc, found.arr), found.index),
     resolved |-> <<>>,
     from |-> [arr |-> found.arr, index |-> found.index]]

\* this.updatedAt = new Date(): a later instant than the one stored
Touch(proj) == [proj EXCEPT !.updatedAt = @ + 1]

\* Project.updateContext line 145, on the Project object the call was made on
TouchIfCurrent(proj, gen) == IF proj.gen = gen THEN Touch(proj) ELSE proj

\* onCellUpdated without its updateCellStateCache(cell)
AfterUpdateContextStale(run, h, cs, ob, conn, busy) ==
    LET c == h[run.held]
        send == run.hasChanged /\ conn /\ ~busy
    IN [cellStates |-> cs,
        outbox |-> IF send THEN sendCellUpdatePacket(ob, h, run.held) ELSE ob,
        fin |-> Some([kind |-> run.kind, cellId |-> c.id, held |-> run.held,
                      hasChanged |-> run.hasChanged, connected |-> conn,
                      sent |-> send, clean |-> run.clean, plan |-> run.plan,
                      resolved |-> run.resolved])]

\* App.onCellUpdated lines 379-386, once updateContext has returned
AfterUpdateContext(run, h, cs, ob, conn, busy) ==
    LET c == h[run.held]
        send == run.hasChanged /\ conn /\ ~busy
    IN [cellStates |-> updateCellStateCache(cs, c),
        outbox |-> IF send THEN sendCellUpdatePacket(ob, h, run.held) ELSE ob,
        fin |-> Some([kind |-> run.kind, cellId |-> c.id, held |-> run.held,
                      hasChanged |-> run.hasChanged, connected |-> conn,
                      sent |-> send, clean |-> run.clean, plan |-> run.plan,
                      resolved |-> run.resolved])]

\* the end of updateContext for the other callers
AfterBareUpdateContext(run, cs, ob) ==
    [cellStates |-> cs, outbox |-> ob,
     fin |-> Some([kind |-> run.kind, cellId |-> "", held |-> 0, hasChanged |-> FALSE,
                   connected |-> FALSE, sent |-> FALSE, clean |-> run.clean,
                   plan |-> run.plan, resolved |-> run.resolved])]

(***************************************************************************)
(* Advance: run the walk of `run` to its next executor call or to its end. *)
(***************************************************************************)
\* a walk that is given up where it should be suspended or finished
AdvanceAbandons(run, h, proj, reg, cs, ob, conn, busy) ==
    [run |-> None, project |-> proj, cellStates |-> cs, outbox |-> ob,
     fin |-> None, last |-> None]

Advance(run, h, proj, reg, cs, ob, conn, busy) ==
    LET w == Walk(h, proj.cells, reg, run.frames, <<>>)
        done == run.resolved \o [j \in 1..Len(w.passed) |-> w.passed[j].cell]
        last == IF w.passed = <<>> THEN None
                ELSE LET p == w.passed[Len(w.passed)] IN
                     Some([cell |-> p.cell, input |-> p.input, ret |-> p.input,
                           usable |-> 0, mainCalled |-> FALSE, mainOk |-> FALSE,
                           ctxBefore |-> h[p.cell].ctx, solBefore |-> h[p.cell].sol])
    IN IF ~w.done THEN
           [run |-> Some([run EXCEPT !.frames = w.frames,
                                     !.res = Some(NewResolution(w.cell, w.input)),
                                     !.resolved = Append(done, w.cell)]),
            project |-> proj, cellStates |-> cs, outbox |-> ob, fin |-> None,
            last |-> last]
       ELSE LET r2 == [run EXCEPT !.frames = <<>>, !.resolved = done]
                a == IF run.kind = "local"
                     THEN AfterUpdateContext(r2, h, cs, ob, conn, busy)
                     ELSE AfterBareUpdateContext(r2, cs, ob)
            IN [run |-> None, project |-> TouchIfCurrent(proj, run.gen),
                cellStates |-> a.cellStates, outbox |-> a.outbox, fin |-> a.fin,
                last |-> last]

Ev(type, res, fin, pkt) == [type |-> type, res |-> res, fin |-> fin, pkt |-> pkt]

RemoveAt(s, r) == SubSeq(s, 1, r - 1) \o SubSeq(s, r + 1, Len(s))

(***************************************************************************)
(* Initial states.  The tree  [ Eq c1 "a", Folder c2 [ Eq c3 "c" ],        *)
(* Note c4, Eq c5 "b" ]  as the editor builds it (createEquationCell gives *)
(* every equation cell an empty Context and no solutions).                 *)
(***************************************************************************)
InitHeap ==
    << createEquationCell("c1", "a"),
       FolderCell("c2", "a", <<3>>),
       createEquationCell("c3", "c"),
       NoteCell("c4", "b"),
       createEquationCell("c5", "b") >>

InitProject == [gen |-> 0, cells |-> <<1, 2, 4, 5>>, updatedAt |-> 0]

Registry(n) == SubSeq(FunctionNames, 1, n)

\* PacketManagerService after construction (part_004 lines 354-373)
InitManager ==
    /\ ws = 0
    /\ sockets = <<>>
    /\ reconnectAttempts = 0
    /\ reconnectTimeout = None
    /\ delays = <<>>
    /\ transportErrors = 0

InitCommon ==
    /\ InitManager
    /\ heap = InitHeap
    /\ project = InitProject
    /\ runs = <<>>
    /\ cellStates = NoCellStates
    /\ isProcessingIncomingPacket = FALSE
    /\ outbox = <<>>
    /\ errors = 0
    /\ nCalls = 0
    /\ quiet = {}
    /\ ev = Ev("init", None, None, None)

(***************************************************************************)
(* Project.updateContext(cellId), called directly.                         *)
(***************************************************************************)
\* lines 135-138: the throw comes before anything else is done
OnNotFoundTouch(proj) == Touch(proj)
OnNotFound(proj) == proj

UpdateContextWithin(cellId, maxCalls, maxRuns) ==
    /\ UNCHANGED pmVars
    /\ nCalls < maxCalls
    /\ Len(runs) < maxRuns
    /\ nCalls' = nCalls + 1
    /\ LET found == findCellWithParent(heap, project.cells, cellId) IN
       IF ~found.found THEN
           /\ project' = OnNotFound(project)
           /\ ev' = Ev("notFound", None, None, None)
           /\ UNCHANGED <<heap, registry, ready, runs, cellStates,
                          isProcessingIncomingPacket, isConnected, outbox, errors,
                          nPackets, quiet>>
       ELSE
           LET run == NewRun("bare", heap, project.cells, project.gen, found, 0, FALSE)
               adv == Advance(run, heap, project, registry, cellStates, outbox,
                              isConnected, isProcessingIncomingPacket)
           IN /\ runs' = IF IsSome(adv.run) THEN Append(runs, Get(adv.run)) ELSE runs
              /\ project' = adv.project
              /\ ev' = Ev("start", adv.last, adv.fin, None)
              /\ UNCHANGED <<heap, registry, ready, cellStates,
                             isProcessingIncomingPacket, isConnected, outbox, errors,
                             nPackets, quiet>>

\* updateContext, with the bounds of the specifications that call it once
UpdateContext(cellId) == UpdateContextWithin(cellId, MaxCalls, MaxRuns)

(***************************************************************************)
(* The executor answers the call that activation r awaits.                 *)
(***************************************************************************)
\* updateCellContext that would also write the text it resolved
StoreLatex(h, out) ==
    [h EXCEPT ![out.res.cell].ctx = IF IsSome(out.store) THEN out.store ELSE @,
              ![out.res.cell].sol = IF IsSome(out.sol) THEN out.sol ELSE @,
              ![out.res.cell].updatedAt = IF out.mainOk THEN Now ELSE @,
              ![out.res.cell].text = IF out.mainOk THEN "" ELSE @]

\* cell.context = ...; cell.solutions = ...; cell.updatedAt = new Date()
\* (lines 251, 270-281)
Store(h, out) ==
    [h EXCEPT ![out.res.cell].ctx = IF IsSome(out.store) THEN out.store ELSE @,
              ![out.res.cell].sol = IF IsSome(out.sol) THEN out.sol ELSE @,
              ![out.res.cell].updatedAt = IF out.mainOk THEN Now ELSE @]

Answer(r, out) ==
    IF out.kind = "call" THEN
        /\ runs' = [runs EXCEPT ![r].res = Some(out.res)]
        /\ ev' = Ev("call", None, None, None)
        /\ UNCHANGED <<heap, project, registry, ready, cellStates,
                       isProcessingIncomingPacket, isConnected, outbox, errors,
                       nPackets, nCalls, quiet>>
    ELSE
        LET run == runs[r]
            d == Len(run.frames)
            h2 == Store(heap, out)
            r2 == [run EXCEPT !.res = None,
                              !.frames[d] = AfterEquation(run.frames[d], out.value)]
            adv == Advance(r2, h2, project, registry, cellStates, outbox,
                           isConnected, isProcessingIncomingPacket)
            sum == [cell |-> out.res.cell, input |-> out.res.input, ret |-> out.value,
                    usable |-> out.usable, mainCalled |-> out.mainCalled,
                    mainOk |-> out.mainOk, ctxBefore |-> heap[out.res.cell].ctx,
                    solBefore |-> heap[out.res.cell].sol]
        IN /\ heap' = h2
           /\ runs' = IF IsSome(adv.run) THEN [runs EXCEPT ![r] = Get(adv.run)]
                      ELSE RemoveAt(runs, r)
           /\ project' = adv.project
           /\ cellStates' = adv.cellStates
           /\ outbox' = adv.outbox
           /\ ev' = Ev("return", Some(sum), adv.fin, None)
           /\ UNCHANGED <<registry, ready, isProcessingIncomingPacket, isConnected,
                          errors, nPackets, nCalls, quiet>>

\* callMetaFunction resolves
MetaReturns(r, o) ==
    /\ UNCHANGED pmVars
    /\ r \in 1..Len(runs)
    /\ IsSome(runs[r].res)
    /\ Get(runs[r].res).phase = "meta"
    /\ LET res == Get(runs[r].res) IN
       Answer(r, OnMetaResult(res, registry, o, heap[res.cell].text))

\* callFunction resolves
MainReturns(r, o) ==
    /\ UNCHANGED pmVars
    /\ r \in 1..Len(runs)
    /\ IsSome(runs[r].res)
    /\ Get(runs[r].res).phase = "main"
    /\ Answer(r, OnMainResult(Get(runs[r].res), o))

(***************************************************************************)
(* SpecEngine: the propagation engine alone, propagateFrom called by any   *)
(* caller, calls overlapping.                                              *)
(***************************************************************************)
InitEngine ==
    /\ InitCommon
    /\ nPackets = 0
    /\ ready = TRUE
    /\ isConnected = FALSE
    /\ registry \in {Registry(n) : n \in 0..MaxFunctions}

NextEngine ==
    \/ \E cellId \in Ids \cup {UnknownId} : UpdateContext(cellId)
    \/ \E r \in 1..MaxRuns, o \in MetaOutcomes(EngineIndices) : MetaReturns(r, o)
    \/ \E r \in 1..MaxRuns, o \in MainOutcomes({"none", "extend", "replace"}) :
          MainReturns(r, o)

SpecEngine == InitEngine /\ [][NextEngine]_vars

(***************************************************************************)
(* SpecSelect: Function Resolution of one cell at a time against a         *)
(* registry of up to MaxCandidates functions with any priority indices.    *)
(***************************************************************************)
InitSelect ==
    /\ InitCommon
    /\ nPackets = 0
    /\ ready = TRUE
    /\ isConnected = FALSE
    /\ registry \in {Registry(n) : n \in 1..MaxCandidates}

NextSelect ==
    \/ \E cellId \in SelectIds : runs = <<>> /\ UpdateContext(cellId)
    \/ \E r \in 1..MaxRuns, o \in MetaOutcomes(PriorityIndices) : MetaReturns(r, o)
    \/ \E r \in 1..MaxRuns, o \in AllMainOutcomes : MainReturns(r, o)

SpecSelect == InitSelect /\ [][NextSelect]_vars

(***************************************************************************)
(* App: local edits and onCellUpdated.                                     *)
(***************************************************************************)
\* the cell objects the editor shows: those reachable from project.cells
RECURSIVE ReachableFrom(_, _)
ReachableFrom(h, a) ==
    UNION {{a[j]} \cup (IF h[a[j]].type = "folder" THEN ReachableFrom(h, h[a[j]].kids)
                        ELSE {}) : j \in 1..Len(a)}

Reachable == ReachableFrom(heap, project.cells)

\* App.onCellUpdated up to its await (lines 362-377), on the heap h
onCellUpdated(h, cellId, type) ==
    LET found == findCell(h, project.cells, cellId) IN
    IF ~ready \/ ~found.found THEN
        /\ runs' = runs
        /\ project' = project
        /\ cellStates' = cellStates
        /\ outbox' = outbox
        /\ ev' = Ev("skip", None, None, None)
    ELSE
        LET hasChanged == hasCellChanged(cellStates, h[found.cell])
            \* project.updateContext(cellId) looks the cell up again
            where == findCellWithParent(h, project.cells, cellId)
            run == NewRun("local", h, project.cells, project.gen, where, found.cell,
                          hasChanged)
            adv == Advance(run, h, project, registry, cellStates, outbox,
                           isConnected, isProcessingIncomingPacket)
        IN /\ runs' = IF IsSome(adv.run) THEN Append(runs, Get(adv.run)) ELSE runs
           /\ project' = adv.project
           /\ cellStates' = adv.cellStates
           /\ outbox' = adv.outbox
           /\ ev' = Ev(type, adv.last, adv.fin, None)

\* CellListComponent.onLatexChange / onNoteChange / onFolderNameChange
\* (part_006 lines 38-75): the edit, then cellUpdated.emit(cell.id)
LocalEditWithin(o, t, maxCalls, maxRuns) ==
    /\ UNCHANGED pmVars
    /\ nCalls < maxCalls
    /\ Len(runs) < maxRuns
    /\ heap[o].text # t
    /\ nCalls' = nCalls + 1
    /\ heap' = [heap EXCEPT ![o].text = t, ![o].updatedAt = Now]
    /\ quiet' = quiet \ {heap[o].id}
    /\ onCellUpdated(heap', heap[o].id, "edit")
    /\ UNCHANGED <<registry, ready, isProcessingIncomingPacket, isConnected, errors,
                   nPackets>>

\* a local edit, with the bounds of the specifications of one edit at a time
LocalEdit(o, t) == LocalEditWithin(o, t, MaxCalls, MaxRuns)

\* cellUpdated.emit(cell.id) with no change of the cell (part_006, the
\* drag-and-drop handlers)
OnCellUpdated(cellId) ==
    /\ UNCHANGED pmVars
    /\ nCalls < MaxCalls
    /\ Len(runs) < MaxRuns
    /\ nCalls' = nCalls + 1
    /\ onCellUpdated(heap, cellId, "emit")
    /\ UNCHANGED <<heap, registry, ready, isProcessingIncomingPacket, isConnected,
                   errors, nPackets, quiet>>

\* App.findFirstCell
RECURSIVE findFirstCell(_, _)
findFirstCell(h, a) ==
    IF a = <<>> THEN 0
    ELSE IF h[a[1]].type = "folder" /\ h[a[1]].kids # <<>>
         THEN findFirstCell(h, h[a[1]].kids)
         ELSE a[1]

\* App constructor lines 171-177: initializePlugins() resolves, then
\* updateFirstCell() (not awaited) and rebuildCellStateCache()
PluginsInitialized(n) ==
    /\ UNCHANGED pmVars
    /\ ~ready
    /\ Len(runs) < MaxRuns
    /\ ready' = TRUE
    /\ registry' = Registry(n)
    /\ LET first == findFirstCell(heap, project.cells)
           found == IF first = 0 THEN NotFound
                    ELSE findCellWithParent(heap, project.cells, heap[first].id)
       IN IF ~found.found THEN
              /\ runs' = runs
              /\ project' = project
              /\ ev' = Ev("plugins", None, None, None)
          ELSE
              LET run == NewRun("bare", heap, project.cells, project.gen, found, 0, FALSE)
                  adv == Advance(run, heap, project, registry', cellStates, outbox,
                                 isConnected, isProcessingIncomingPacket)
              IN /\ runs' = IF IsSome(adv.run) THEN Append(runs, Get(adv.run))
                            ELSE runs
                 /\ project' = adv.project
                 /\ ev' = Ev("plugins", adv.last, adv.fin, None)
    /\ cellStates' = rebuildCellStateCache(heap, project.cells)
    /\ UNCHANGED <<heap, isProcessingIncomingPacket, isConnected, outbox, errors,
                   nPackets, nCalls, quiet>>

\* App constructor lines 61-69: connectionStatus$ emits (the signal is all
\* it sets)
ConnectionStatus(status) ==
    /\ UNCHANGED pmVars
    /\ isConnected # status
    /\ isConnected' = status
    /\ UNCHANGED <<heap, project, registry, ready, runs, cellStates,
                   isProcessingIncomingPacket, outbox, errors, nPackets, nCalls, quiet,
                   ev>>

(***************************************************************************)
(* CellSerializer.deserialize: new cell objects on the heap.  An unknown   *)
(* type discriminant throws (line 128).                                    *)
(***************************************************************************)
\* a deserialize that looks at the type of the packet cell alone
DecodableShallow(data) == data.type \in {"equation", "folder", "note"}

RECURSIVE Decodable(_)
Decodable(data) ==
    /\ data.type \in {"equation", "folder", "note"}
    /\ data.type = "folder" /\ IsSome(data.cells) =>
          \A j \in 1..Len(Get(data.cells)) : Decodable(Get(data.cells)[j])

\* data.latex || '' and the like
OrEmpty(field) == IF IsSome(field) THEN Get(field) ELSE ""

RECURSIVE deserialize(_, _)
RECURSIVE deserializeAll(_, _)
deserialize(h, data) ==
    CASE data.type = "equation" ->
            [heap |-> Append(h, Dated(EquationCell(data.id, OrEmpty(data.latex),
                                                   IF IsSome(data.context)
                                                   THEN Some(deserializeContext(
                                                                Get(data.context)))
                                                   ELSE None,
                                                   data.solutions),
                                      newDate(data.createdAt), newDate(data.updatedAt))),
             cell |-> Len(h) + 1]
      [] data.type = "folder" ->
            LET kids == deserializeAll(h, IF IsSome(data.cells) THEN Get(data.cells)
                                          ELSE <<>>)
            IN [heap |-> Append(kids.heap,
                                Dated(FolderCell(data.id, OrEmpty(data.name), kids.cells),
                                      newDate(data.createdAt), newDate(data.updatedAt))),
                cell |-> Len(kids.heap) + 1]
      [] OTHER ->
            [heap |-> Append(h, Dated(NoteCell(data.id, OrEmpty(data.content)),
                                      newDate(data.createdAt), newDate(data.updatedAt))),
             cell |-> Len(h) + 1]

\* data.cells.map((c) => CellSerializer.deserialize(c))
deserializeAll(h, datas) ==
    IF datas = <<>> THEN [heap |-> h, cells |-> <<>>]
    ELSE LET first == deserialize(h, Head(datas))
             rest == deserializeAll(first.heap, Tail(datas))
         IN [heap |-> rest.heap, cells |-> <<first.cell>> \o rest.cells]

(***************************************************************************)
(* Arrays: writes through a reference, and Array.prototype.splice.         *)
(***************************************************************************)
SetArray(h, pc, ref, a) ==
    IF ref.k = "folder" THEN [heap |-> [h EXCEPT ![ref.o].kids = a], cells |-> pc]
    ELSE [heap |-> h, cells |-> a]

\* an insertion that appends whatever the start
SplicePush(a, start, item) == Append(a, item)

\* splice(start, 0, item): a start beyond the length is the length, a
\* negative start counts from the end (0-based start)
SpliceInsert(a, start, item) ==
    LET n == Len(a)
        at == IF start < 0 THEN Max(n + start, 0) ELSE Min(start, n)
    IN SubSeq(a, 1, at) \o <<item>> \o SubSeq(a, at + 1, n)

\* splice(index, 1) for an index of the array (0-based)
SpliceRemove(a, index) == RemoveAt(a, index + 1)

\* App.forceUIUpdate: project.cells = project.cells.slice().  The array
\* object that held the top-level cells is from now on referenced by the
\* suspended walks alone.
forceUIUpdate(rs, pc) ==
    [r \in 1..Len(rs) |->
        [rs[r] EXCEPT
            !.clean = FALSE,
            !.frames = [d \in 1..Len(rs[r].frames) |->
                           IF rs[r].frames[d].arr.k = "top"
                           THEN [rs[r].frames[d] EXCEPT !.arr = SnapRef(pc)]
                           ELSE rs[r].frames[d]]]]

(***************************************************************************)
(* Inbound packets (packet.model.ts).  Indices are 0-based as on the wire. *)
(***************************************************************************)
SerBase(id, type) ==
    [id |-> id, type |-> type, createdAt |-> toISOString(Epoch),
     updatedAt |-> toISOString(Epoch), latex |-> None, name |-> None,
     content |-> None, cells |-> None, context |-> None, solutions |-> None]
SerEquation(id, latex, context) ==
    [SerBase(id, "equation") EXCEPT !.latex = Some(latex), !.context = context]
SerNote(id, content) == [SerBase(id, "note") EXCEPT !.content = Some(content)]
SerFolder(id, name, cells) ==
    [SerBase(id, "folder") EXCEPT !.name = Some(name), !.cells = Some(cells)]
SerUnknown(id) == SerBase(id, "widget")
\* data whose createdAt is no ISO string
Undated(data) == [data EXCEPT !.createdAt = Malformed]

UpdateCells ==
    {SerEquation("c1", "b", None), SerEquation("c1", "a", Some(serializeContext({"c"}))),
     SerNote("c3", "b"), SerUnknown("c1"), Undated(SerEquation("c1", "a", None))}
UpdateIds == {"c1", "c3", UnknownId}

MoveIds == {"c1", "c3", "c4", "c5", UnknownId}
MoveFrom == {0, 1}
MoveTo == {-1, 0, 3, 4}

CreateCells == {SerEquation("c6", "b", None), SerNote("c1", "b"), SerUnknown("c6")}
CreateIndex == {0, 9}
CreateParents == {None, Some("c2"), Some(UnknownId)}

DeleteIds == {"c1", "c2", "c3", UnknownId}
DeleteParents == {None, Some("c2")}

SyncProjects ==
    {[cells |-> <<SerEquation("c1", "b", None), SerEquation("c5", "a", Some(serializeContext({"a"})))>>,
      updatedAt |-> 0],
     [cells |-> <<SerFolder("c2", "a", <<SerNote("c3", "c")>>)>>, updatedAt |-> 1],
     [cells |-> <<SerUnknown("c1")>>, updatedAt |-> 0]}

PacketEv(ptype, cellId, applied, startedRun) ==
    Ev("packet", None, None,
       Some([ptype |-> ptype, cellId |-> cellId, applied |-> applied,
             startedRun |-> startedRun]))

\* a handler's early return or catch: an emission on errors$, nothing else
Reject(ptype, cellId) ==
    /\ errors' = errors + 1
    /\ ev' = PacketEv(ptype, cellId, FALSE, FALSE)
    /\ UNCHANGED <<heap, project, registry, ready, runs, cellStates,
                   isProcessingIncomingPacket, isConnected, outbox, nCalls, quiet>>

\* a subscription that the first failed packet ends
ReceiveUntilError ==
    /\ UNCHANGED pmVars
    /\ isConnected
    /\ errors = 0
    /\ nPackets > 0
    /\ nPackets' = nPackets - 1

\* incomingPackets$ delivers the next packet to handlePacket
Receive ==
    /\ UNCHANGED pmVars
    /\ isConnected
    /\ nPackets > 0
    /\ nPackets' = nPackets - 1

(***************************************************************************)
(* PacketHandlerService handlers, each with the App subscription that its  *)
(* Subject runs synchronously (part_008 lines 79-157).  The subscription   *)
(* sets isProcessingIncomingPacket and clears it before it returns.        *)
(***************************************************************************)
\* handleProjectSync, and App's projectSync$ subscription
HandleProjectSync(data) ==
    /\ Receive
    /\ IF ~(\A j \in 1..Len(data.cells) : Decodable(data.cells[j])) THEN
           Reject("ProjectSync", "")
       ELSE
           LET d == deserializeAll(heap, data.cells) IN
           /\ heap' = d.heap
           /\ project' = [gen |-> project.gen + 1, cells |-> d.cells,
                          updatedAt |-> data.updatedAt]
           /\ cellStates' = rebuildCellStateCache(d.heap, d.cells)
           /\ runs' = forceUIUpdate(runs, project.cells)
           /\ isProcessingIncomingPacket' = FALSE
           /\ ev' = PacketEv("ProjectSync", "", TRUE, FALSE)
           /\ UNCHANGED <<registry, ready, isConnected, outbox, errors, nCalls, quiet>>

\* a replacement that inserts before the slot instead
ReplaceSlotInsert(a, index, cell) == SubSeq(a, 1, index - 1) \o <<cell>> \o SubSeq(a, index, Len(a))

\* line 181: parentArray[currentIndex] = updatedCell (index counted from 1)
ReplaceSlot(a, index, cell) == [a EXCEPT ![index] = cell]

\* handleCellUpdate, and App's cellUpdate$ subscription
HandleCellUpdate(cellId, data) ==
    /\ Receive
    /\ LET found == findCellWithParent(heap, project.cells, cellId) IN
       IF ~found.found \/ ~Decodable(data) THEN
           Reject("CellUpdate", cellId)
       ELSE
           LET d == deserialize(heap, data)
               a == ArrayOf(d.heap, project.cells, found.arr)
               w == SetArray(d.heap, project.cells, found.arr,
                             ReplaceSlot(a, found.index, d.cell))
               c == findCell(w.heap, w.cells, cellId)
           IN /\ heap' = w.heap
              /\ project' = Touch([project EXCEPT !.cells = w.cells])
              /\ cellStates' = IF c.found
                               THEN updateCellStateCache(cellStates, w.heap[c.cell])
                               ELSE cellStates
              /\ runs' = forceUIUpdate(runs, w.cells)
              /\ isProcessingIncomingPacket' = FALSE
              /\ quiet' = quiet \cup {cellId}
              /\ ev' = PacketEv("CellUpdate", cellId, TRUE, FALSE)
              /\ UNCHANGED <<registry, ready, isConnected, outbox, errors, nCalls>>

\* propagateContextFromIndex: the first equation cell at or after startIndex
\* (0-based), 0 if there is none
RECURSIVE FirstEquationFrom(_, _, _)
FirstEquationFrom(h, a, startIndex) ==
    IF startIndex + 1 > Len(a) THEN 0
    ELSE IF h[a[startIndex + 1]].type = "equation" THEN a[startIndex + 1]
    ELSE FirstEquationFrom(h, a, startIndex + 1)

\* a removal at the index the packet declares
removeIndexDeclared(currentIndex, fromIndex) == fromIndex

\* line 228: parentArray.splice(currentIndex, 1); packet.fromIndex is only
\* compared and logged (lines 217-219)
removeIndex(currentIndex, fromIndex) == currentIndex

\* a validation that lets the length itself through
InvalidToIndexLax(toIndex, parentArray) == toIndex < 0 \/ toIndex > Len(parentArray)

\* line 221: packet.toIndex < 0 || packet.toIndex >= parentArray.length
InvalidToIndex(toIndex, parentArray) == toIndex < 0 \/ toIndex >= Len(parentArray)

\* handleCellMove, and App's cellMove$ subscription
\* a move that is followed by propagation whatever cell was moved
propagatesAfterMoveAlways(cell) == TRUE

\* lines 239-241: if (cell.type === 'equation') propagateContextFromIndex
propagatesAfterMove(cell) == cell.type = "equation"

HandleCellMoveWithin(cellId, fromIndex, toIndex, maxRuns) ==
    /\ Receive
    /\ LET found == findCellWithParent(heap, project.cells, cellId)
           a == ArrayOf(heap, project.cells, found.arr)
       IN
       IF ~found.found \/ InvalidToIndex(toIndex, a) THEN
           Reject("CellMove", cellId)
       ELSE
           LET currentIndex == found.index - 1
               a2 == SpliceInsert(SpliceRemove(a, removeIndex(currentIndex, fromIndex)),
                                  toIndex, found.cell)
               w == SetArray(heap, project.cells, found.arr, a2)
               p2 == Touch([project EXCEPT !.cells = w.cells])
               first == IF propagatesAfterMove(heap[found.cell])
                        THEN FirstEquationFrom(w.heap, a2, Min(currentIndex, toIndex))
                        ELSE 0
               start == IF first = 0 THEN NotFound
                        ELSE findCellWithParent(w.heap, w.cells, w.heap[first].id)
           IN /\ heap' = w.heap
              /\ isProcessingIncomingPacket' = FALSE
              /\ IF ~start.found THEN
                     /\ project' = p2
                     /\ runs' = forceUIUpdate(runs, w.cells)
                     /\ ev' = PacketEv("CellMove", cellId, TRUE, FALSE)
                 ELSE
                     LET run == NewRun("bare", w.heap, w.cells, p2.gen, start, 0, FALSE)
                         adv == Advance(run, w.heap, p2, registry, cellStates, outbox,
                                        isConnected, isProcessingIncomingPacket)
                     IN /\ Len(runs) < maxRuns
                        /\ project' = adv.project
                        /\ runs' = forceUIUpdate(
                                      IF IsSome(adv.run) THEN Append(runs, Get(adv.run))
                                      ELSE runs, w.cells)
                        /\ ev' = Ev("packet", adv.last, adv.fin,
                                    Some([ptype |-> "CellMove", cellId |-> cellId,
                                          applied |-> TRUE, startedRun |-> TRUE]))
              /\ UNCHANGED <<registry, ready, cellStates, isConnected, outbox, errors,
                             nCalls, quiet>>

\* handleCellMove, with the bound of the specifications of one run at a time
HandleCellMove(cellId, fromIndex, toIndex) == HandleCellMoveWithin(cellId, fromIndex, toIndex, MaxRuns)

\* if (packet.parentCellId): an optional string that is present and not ''
Truthy(parentCellId) == IsSome(parentCellId) /\ Get(parentCellId) # ""

\* handleCellCreate, and App's cellCreate$ subscription
HandleCellCreate(data, index, parentCellId) ==
    /\ Receive
    /\ LET parent == IF Truthy(parentCellId)
                     THEN findCell(heap, project.cells, Get(parentCellId))
                     ELSE NotFound
           noParent == Truthy(parentCellId)
                       /\ (~parent.found \/ heap[parent.cell].type # "folder")
       IN
       IF ~Decodable(data) \/ noParent THEN
           Reject("CellCreate", data.id)
       ELSE
           LET d == deserialize(heap, data)
               ref == IF Truthy(parentCellId) THEN FolderRef(parent.cell) ELSE TopRef
               a == ArrayOf(d.heap, project.cells, ref)
               w == SetArray(d.heap, project.cells, ref, SpliceInsert(a, index, d.cell))
           IN /\ heap' = w.heap
              /\ project' = Touch([project EXCEPT !.cells = w.cells])
              /\ cellStates' = rebuildCellStateCache(w.heap, w.cells)
              /\ runs' = forceUIUpdate(runs, w.cells)
              /\ isProcessingIncomingPacket' = FALSE
              /\ ev' = PacketEv("CellCreate", data.id, TRUE, FALSE)
              /\ UNCHANGED <<registry, ready, isConnected, outbox, errors, nCalls, quiet>>

\* handleCellDelete, and App's cellDelete$ subscription
HandleCellDelete(cellId, parentCellId) ==
    /\ Receive
    /\ LET found == findCellWithParent(heap, project.cells, cellId) IN
       IF ~found.found THEN
           Reject("CellDelete", cellId)
       ELSE
           LET a == ArrayOf(heap, project.cells, found.arr)
               w == SetArray(heap, project.cells, found.arr,
                             SpliceRemove(a, found.index - 1))
           IN /\ heap' = w.heap
              /\ project' = Touch([project EXCEPT !.cells = w.cells])
              /\ cellStates' = [cellStates EXCEPT ![cellId] = None]
              /\ runs' = forceUIUpdate(runs, w.cells)
              /\ isProcessingIncomingPacket' = FALSE
              /\ ev' = PacketEv("CellDelete", cellId, TRUE, FALSE)
              /\ UNCHANGED <<registry, ready, isConnected, outbox, errors, nCalls, quiet>>

(***************************************************************************)
(* Spec: the application - editor, propagation engine, packet handler.     *)
(***************************************************************************)
Init ==
    /\ InitCommon
    /\ nPackets = MaxPackets
    /\ ready = FALSE
    /\ registry = <<>>
    /\ isConnected = FALSE

\* executor answers the application is run against: a meta-call fails or
\* accepts, a main call fails or extends the context
AppMetaOutcomes == {o \in MetaOutcomes(AppIndices) : o.ok = o.use}
AppMainOutcomes == {o \in AllMainOutcomes : o.ok = o.sol}

Next ==
    \/ \E n \in 0..MaxFunctions : PluginsInitialized(n)
    \/ \E status \in BOOLEAN : ConnectionStatus(status)
    \/ \E o \in Reachable, t \in EditTexts : LocalEdit(o, t)
    \/ \E cellId \in EmitIds : OnCellUpdated(cellId)
    \/ \E r \in 1..MaxRuns, o \in AppMetaOutcomes : MetaReturns(r, o)
    \/ \E r \in 1..MaxRuns, o \in AppMainOutcomes : MainReturns(r, o)
    \/ \E data \in SyncProjects : HandleProjectSync(data)
    \/ \E cellId \in UpdateIds, data \in UpdateCells : HandleCellUpdate(cellId, data)
    \/ \E cellId \in MoveIds, fromIndex \in MoveFrom, toIndex \in MoveTo :
          HandleCellMove(cellId, fromIndex, toIndex)
    \/ \E data \in CreateCells, index \in CreateIndex, parentCellId \in CreateParents :
          HandleCellCreate(data, index, parentCellId)
    \/ \E cellId \in DeleteIds, parentCellId \in DeleteParents :
          HandleCellDelete(cellId, parentCellId)

Spec == Init /\ [][Next]_vars

(***************************************************************************)
(* SpecPackets: the packet handler under sequences of inbound packets,     *)
(* with the executor answering the runs that a CellMove starts.            *)
(***************************************************************************)
PacketUpdateIds == {"c1", "c3", "c4", UnknownId}
PacketUpdateCells ==
    {SerEquation("c1", "b", None), SerNote("c3", "b"), SerNote("c5", "b"),
     SerFolder("c4", "a", <<SerNote("c6", "b")>>),
     SerFolder("c4", "a", <<SerFolder("c6", "a", <<SerUnknown("c7")>>)>>)}

PacketMoveIds == {"c1", "c2", "c3", "c5", UnknownId}
PacketMoveFrom == {0, 1}
PacketMoveTo == {-1, 0, 1, 3, 4}

PacketCreateCells ==
    {SerEquation("c6", "b", None), SerNote("c1", "b"),
     SerFolder("c6", "a", <<SerNote("c7", "b"), SerUnknown("c8")>>)}
PacketCreateIndex == {0, 1, 2, 4, 5}
PacketParents == {None, Some(""), Some("c2"), Some("c4"), Some(UnknownId)}

PacketDeleteIds == {"c1", "c3", "c4", UnknownId}
PacketDeleteParents == {None, Some("c2"), Some(UnknownId)}

\* the projects of the ProjectSync packets: those of Spec, and one whose two
\* cells carry the same id
PacketSyncProjects ==
    SyncProjects \cup
    {[cells |-> <<SerEquation("c1", "a", None), SerNote("c1", "b")>>, updatedAt |-> 1]}

InitPackets ==
    /\ InitCommon
    /\ nPackets = MaxInbound
    /\ ready = TRUE
    /\ isConnected = TRUE
    /\ registry = Registry(MaxFunctions)

NextPackets ==
    \/ \E data \in PacketSyncProjects : HandleProjectSync(data)
    \/ \E cellId \in PacketUpdateIds, data \in PacketUpdateCells :
          HandleCellUpdate(cellId, data)
    \/ \E cellId \in PacketMoveIds, fromIndex \in PacketMoveFrom, toIndex \in PacketMoveTo :
          HandleCellMove(cellId, fromIndex, toIndex)
    \/ \E data \in PacketCreateCells, index \in PacketCreateIndex,
          parentCellId \in PacketParents :
          HandleCellCreate(data, index, parentCellId)
    \/ \E cellId \in PacketDeleteIds, parentCellId \in PacketDeleteParents :
          HandleCellDelete(cellId, parentCellId)
    \/ \E r \in 1..MaxRuns, o \in AppMetaOutcomes : MetaReturns(r, o)
    \/ \E r \in 1..MaxRuns, o \in AppMainOutcomes : MainReturns(r, o)

SpecPackets == InitPackets /\ [][NextPackets]_vars

(***************************************************************************)
(* SpecPacketsFair: SpecPackets where every executor call returns: the     *)
(* promise of callMetaFunction or callFunction that a run awaits is        *)
(* settled at some time, so the answer to an awaited call is not put off   *)
(* for ever.  This is weak fairness of the executor's answers,             *)
(* WF_vars(ExecutorAnswers), stated with the condition under which an      *)
(* answer is possible written out: a run is suspended, for a suspended run *)
(* awaits a call at all times (AnswerPossibleWhenSuspended).  The packets  *)
(* are finitely many (nPackets).                                           *)
(***************************************************************************)
ExecutorAnswers ==
    \E r \in 1..MaxRuns :
        \/ \E o \in AppMetaOutcomes : MetaReturns(r, o)
        \/ \E o \in AppMainOutcomes : MainReturns(r, o)

\* an answer of the executor is possible exactly when a run is suspended
AnswerPossibleWhenSuspended ==
    (ENABLED <<ExecutorAnswers>>_vars) <=> (runs # <<>>)

\* always eventually no run is suspended, or always eventually the executor
\* answers
FairAnswers == []<>(runs = <<>>) \/ []<><<ExecutorAnswers>>_vars

SpecPacketsFair == SpecPackets /\ FairAnswers

(***************************************************************************)
(* SpecRoundTrip: CellSerializer.serialize / deserialize and               *)
(* Project.toJSON / fromJSON applied to one cell tree.  A tree is given as *)
(* a value: a cell record whose kids are values in their turn.             *)
(***************************************************************************)
Dates == Instants \cup {InvalidDate}

EquationValues ==
    {Dated(EquationCell("c1", latex, ctx, sol), createdAt, updatedAt) :
        latex \in {"", "a"}, ctx \in {None, Some({}), Some({"a", "b"})},
        sol \in {None, Some(<<>>), Some(<<"a">>)}, createdAt \in Dates,
        updatedAt \in Instants}
NoteValues ==
    {Dated(NoteCell("c4", content), Epoch, updatedAt) :
        content \in {"", "b"}, updatedAt \in Dates}
FolderValue(name, kids) == FolderCell("c2", name, kids)

\* the cell trees with folders nested at most `depth` deep
RECURSIVE CellValues(_)
CellValues(depth) ==
    IF depth = 0 THEN EquationValues \cup NoteValues
    ELSE EquationValues \cup NoteValues \cup {FolderValue("", <<>>)}
         \cup {FolderValue("a", <<v>>) : v \in CellValues(depth - 1)}
         \cup {FolderValue("a", <<NoteCell("c4", "b"), v>>) : v \in CellValues(depth - 1)}

\* the cell objects of a tree value, put on the heap h
RECURSIVE Alloc(_, _)
RECURSIVE AllocAll(_, _)
Alloc(h, v) ==
    LET kids == AllocAll(h, v.kids)
    IN [heap |-> Append(kids.heap, [v EXCEPT !.kids = kids.cells]),
        cell |-> Len(kids.heap) + 1]
AllocAll(h, vs) ==
    IF vs = <<>> THEN [heap |-> h, cells |-> <<>>]
    ELSE LET first == Alloc(h, Head(vs))
             rest == AllocAll(first.heap, Tail(vs))
         IN [heap |-> rest.heap, cells |-> <<first.cell>> \o rest.cells]

\* the tree value of the cell object o: every field of the cell, the
\* children by value
RECURSIVE CellValue(_, _)
CellValue(h, o) ==
    [h[o] EXCEPT !.kids = [j \in 1..Len(h[o].kids) |-> CellValue(h, h[o].kids[j])]]

\* new Project(name, cells, id, createdAt, updatedAt): a missing or empty
\* id is replaced by a random one; a Date, valid or not, is kept
NewProject(name, cells, id, createdAt, updatedAt, gen) ==
    [gen |-> gen, cells |-> cells, updatedAt |-> updatedAt,
     id |-> IF id = "" THEN "uuid" ELSE id, name |-> name, createdAt |-> createdAt]

\* Project.toJSON throws where a toISOString of the project or of a cell does
CanToJSON(h, proj) ==
    /\ \A j \in 1..Len(proj.cells) : CanSerialize(h, proj.cells[j])
    /\ CanISOString(proj.createdAt)
    /\ CanISOString(proj.updatedAt)

\* Project.toJSON
ProjectToJSON(h, proj) ==
    [id |-> proj.id, name |-> proj.name,
     cells |-> [j \in 1..Len(proj.cells) |-> serialize(h, proj.cells[j])],
     createdAt |-> toISOString(proj.createdAt),
     updatedAt |-> toISOString(proj.updatedAt)]

\* Project.fromJSON: a new Project object with new cell objects
ProjectFromJSON(h, data, gen) ==
    LET d == deserializeAll(h, data.cells)
    IN [heap |-> d.heap,
        project |-> NewProject(data.name, d.cells, data.id, newDate(data.createdAt),
                               newDate(data.updatedAt), gen)]

\* the value of a Project: its fields, the cells by value
ProjectValue(h, proj) ==
    [id |-> proj.id, name |-> proj.name, createdAt |-> proj.createdAt,
     updatedAt |-> proj.updatedAt,
     cells |-> [j \in 1..Len(proj.cells) |-> CellValue(h, proj.cells[j])]]

InitRoundTrip ==
    /\ \E v \in CellValues(MaxDepth), name \in {"", "a"}, createdAt \in Dates :
          LET b == Alloc(<<>>, v) IN
          /\ heap = b.heap
          /\ project = NewProject(name, <<b.cell>>, "p1", createdAt, Epoch, 0)
    /\ InitManager
    /\ registry = <<>>
    /\ ready = FALSE
    /\ runs = <<>>
    /\ cellStates = NoCellStates
    /\ isProcessingIncomingPacket = FALSE
    /\ isConnected = FALSE
    /\ outbox = <<>>
    /\ errors = 0
    /\ nPackets = 0
    /\ nCalls = 0
    /\ quiet = {}
    /\ ev = Ev("init", None, None, None)

\* CellSerializer.deserialize(CellSerializer.serialize(c)) for the cell c at
\* the top of the tree; `threw` where serialize throws
RoundTripCell ==
    /\ UNCHANGED pmVars
    /\ ev.type = "init"
    /\ LET c == project.cells[1] IN
       IF CanSerialize(heap, c) THEN
           LET d == deserialize(heap, serialize(heap, c)) IN
           /\ heap' = d.heap
           /\ ev' = Ev("cell", Some([threw |-> FALSE, of |-> c, back |-> d.cell]),
                       None, None)
       ELSE
           /\ heap' = heap
           /\ ev' = Ev("cell", Some([threw |-> TRUE, of |-> c, back |-> c]), None, None)
    /\ UNCHANGED <<project, registry, ready, runs, cellStates,
                   isProcessingIncomingPacket, isConnected, outbox, errors, nPackets,
                   nCalls, quiet>>

\* Project.fromJSON(p.toJSON()) for the project p; `threw` where toJSON throws
RoundTripProject ==
    /\ UNCHANGED pmVars
    /\ ev.type = "init"
    /\ IF CanToJSON(heap, project) THEN
           LET d == ProjectFromJSON(heap, ProjectToJSON(heap, project), project.gen + 1)
           IN /\ heap' = d.heap
              /\ project' = d.project
              /\ ev' = Ev("project", Some([threw |-> FALSE, of |-> project]), None, None)
       ELSE
           /\ heap' = heap
           /\ project' = project
           /\ ev' = Ev("project", Some([threw |-> TRUE, of |-> project]), None, None)
    /\ UNCHANGED <<registry, ready, runs, cellStates, isProcessingIncomingPacket,
                   isConnected, outbox, errors, nPackets, nCalls, quiet>>

NextRoundTrip ==
    \/ RoundTripCell
    \/ RoundTripProject

SpecRoundTrip == InitRoundTrip /\ [][NextRoundTrip]_vars

(***************************************************************************)
(* SpecFind: Project.findCell and Project.findCellWithParent applied to    *)
(* one cell tree and one id.  The trees have folders nested up to MaxDepth *)
(* deep and ids that occur more than once, on a folder and inside it too.  *)
(***************************************************************************)
FindLeaves == {createEquationCell("c1", "a"), NoteCell("c3", "b"), NoteCell("c1", "b")}

\* the arrays of at most two cells: none, one of vs, or a leaf and one of vs
FindArrays(vs) ==
    {<<>>} \cup {<<v>> : v \in vs} \cup {<<l, v>> : l \in FindLeaves, v \in vs}

RECURSIVE FindValues(_)
FindValues(depth) ==
    IF depth = 0 THEN FindLeaves
    ELSE FindLeaves \cup
         {FolderCell(id, "a", kids) :
             id \in {"c2", "c3"}, kids \in FindArrays(FindValues(depth - 1))}

FindIds == {"c1", "c2", "c3", UnknownId}

InitFind ==
    /\ \E v \in FindValues(MaxDepth), l \in FindLeaves, order \in {"one", "before", "after"} :
          LET b == AllocAll(<<>>, CASE order = "one" -> <<v>>
                                    [] order = "before" -> <<l, v>>
                                    [] OTHER -> <<v, l>>)
          IN /\ heap = b.heap
             /\ project = [gen |-> 0, cells |-> b.cells, updatedAt |-> Epoch]
    /\ InitManager
    /\ registry = <<>>
    /\ ready = FALSE
    /\ runs = <<>>
    /\ cellStates = NoCellStates
    /\ isProcessingIncomingPacket = FALSE
    /\ isConnected = FALSE
    /\ outbox = <<>>
    /\ errors = 0
    /\ nPackets = 0
    /\ nCalls = 0
    /\ quiet = {}
    /\ ev = Ev("init", None, None, None)

\* project.findCell(cellId) and project.findCellWithParent(project.cells,
\* cellId): neither writes anything; ev records what they returned
Find(cellId) ==
    /\ ev.type = "init"
    /\ ev' = Ev("find",
                Some([cellId |-> cellId,
                      cell |-> findCell(heap, project.cells, cellId),
                      withParent |-> findCellWithParent(heap, project.cells, cellId)]),
                None, None)
    /\ UNCHANGED pmVars
    /\ UNCHANGED <<heap, project, registry, ready, runs, cellStates,
                   isProcessingIncomingPacket, isConnected, outbox, errors, nPackets,
                   nCalls, quiet>>

NextFind == \E cellId \in FindIds : Find(cellId)

SpecFind == InitFind /\ [][NextFind]_vars

(***************************************************************************)
(* SpecConnection: PacketManagerService.  A WebSocket object is a record   *)
(* of its readyState and of whether it has been open; the App's calls of   *)
(* connect and disconnect, the sockets' open and close events and the      *)
(* reconnect timer are the actions.  Every socket keeps the handlers       *)
(* connect() gave it, so the close event of a socket the service has       *)
(* already dropped still runs onclose.  The configuration is the same in   *)
(* every call and its URL is one the WebSocket constructor accepts.        *)
(***************************************************************************)
maxReconnectAttempts == 5
reconnectDelay == 2000

\* the codes of the close events: normal closure, going away, abnormal
CloseCodes == {1000, 1001, 1006}

\* the fields of the service, and what connectionStatusSubject last emitted
Manager ==
    [ws |-> ws, sockets |-> sockets, reconnectAttempts |-> reconnectAttempts,
     reconnectTimeout |-> reconnectTimeout, status |-> isConnected,
     delays |-> delays, errors |-> transportErrors]

\* new WebSocket(fullUrl)
NewSocket == [readyState |-> "CONNECTING", opened |-> FALSE]

\* WebSocket.close(1000, 'Client disconnect'): starts the closing handshake
\* of an open socket, fails a connecting one, does nothing otherwise
close(sock) ==
    IF sock.readyState \in {"CONNECTING", "OPEN"}
    THEN [sock EXCEPT !.readyState = "CLOSING"]
    ELSE sock

\* the codes the close event of a socket may carry: a connection that was
\* never established ends with 1006; a handshake the client started with
\* 1000 ends with 1000, or with 1006 if the connection is lost first
CodesOf(sock) ==
    CASE sock.readyState = "CONNECTING" -> {1006}
      [] sock.readyState = "OPEN" -> CloseCodes
      [] sock.readyState = "CLOSING" -> IF sock.opened THEN {1000, 1006} ELSE {1006}
      [] OTHER -> {}

disconnect(m) ==
    LET cleared == [m EXCEPT !.reconnectTimeout = None]
        closed == IF m.ws # 0
                  THEN [cleared EXCEPT !.sockets[m.ws] = close(@),
                                       !.ws = 0,
                                       !.status = FALSE]
                  ELSE cleared
    IN [closed EXCEPT !.reconnectAttempts = 0]

connect(m) ==
    LET d == IF m.ws # 0 THEN disconnect(m) ELSE m
    IN [d EXCEPT !.sockets = Append(@, NewSocket),
                 !.ws = Len(d.sockets) + 1]

scheduleReconnect(m) ==
    IF IsSome(m.reconnectTimeout) THEN m
    ELSE LET delay == reconnectDelay * 2 ^ ((m.reconnectAttempts + 1) - 1)
         IN [m EXCEPT !.reconnectAttempts = @ + 1,
                      !.reconnectTimeout = Some(delay),
                      !.delays = Append(@, delay)]

onopen(m) == [m EXCEPT !.status = TRUE, !.reconnectAttempts = 0]

\* onclose that reconnects whatever the close code
oncloseAnyCode(m, code) ==
    LET down == [m EXCEPT !.status = FALSE]
    IN IF down.reconnectAttempts < maxReconnectAttempts
       THEN scheduleReconnect(down)
       ELSE down

onclose(m, code) ==
    LET down == [m EXCEPT !.status = FALSE]
    IN IF code # 1000 /\ down.reconnectAttempts < maxReconnectAttempts
       THEN scheduleReconnect(down)
       ELSE down

\* what a turn of the event loop in the service did
ManagerEv(type, socket, code) == [type |-> type, socket |-> socket, code |-> code]

\* the service becomes m; the project and the editor are left alone
Becomes(m, e) ==
    /\ ws' = m.ws
    /\ sockets' = m.sockets
    /\ reconnectAttempts' = m.reconnectAttempts
    /\ reconnectTimeout' = m.reconnectTimeout
    /\ isConnected' = m.status
    /\ delays' = m.delays
    /\ transportErrors' = m.errors
    /\ ev' = e
    /\ UNCHANGED <<heap, project, registry, ready, runs, cellStates,
                   isProcessingIncomingPacket, outbox, errors, nPackets,
                   nCalls, quiet>>

\* the App connects
Connect ==
    /\ Len(sockets) < MaxSockets
    /\ Becomes([connect(Manager) EXCEPT !.delays = <<>>], ManagerEv("connect", 0, 0))

\* the App disconnects
Disconnect ==
    /\ Becomes([disconnect(Manager) EXCEPT !.delays = <<>>], ManagerEv("disconnect", 0, 0))

\* the open event of socket s
SocketOpens(s) ==
    /\ s \in 1..Len(sockets)
    /\ sockets[s].readyState = "CONNECTING"
    /\ Becomes([onopen([Manager EXCEPT !.sockets[s] =
                           [readyState |-> "OPEN", opened |-> TRUE]])
                   EXCEPT !.delays = <<>>],
               ManagerEv("open", s, 0))

\* the close event of socket s
SocketCloses(s, code) ==
    /\ s \in 1..Len(sockets)
    /\ code \in CodesOf(sockets[s])
    /\ Becomes(onclose([Manager EXCEPT !.sockets[s].readyState = "CLOSED"], code),
               ManagerEv("close", s, code))

\* the reconnect timer fires
TimerFires ==
    /\ IsSome(reconnectTimeout)
    /\ Len(sockets) < MaxSockets
    /\ Becomes(connect([Manager EXCEPT !.reconnectTimeout = None]),
               ManagerEv("timer", 0, 0))

InitConnection ==
    /\ InitCommon
    /\ nPackets = 0
    /\ ready = FALSE
    /\ isConnected = FALSE
    /\ registry = <<>>

NextConnection ==
    \/ Connect
    \/ Disconnect
    \/ \E s \in 1..MaxSockets : SocketOpens(s)
    \/ \E s \in 1..MaxSockets, code \in CloseCodes : SocketCloses(s, code)
    \/ TimerFires

SpecConnection == InitConnection /\ [][NextConnection]_vars

(***************************************************************************)
(* SpecMessages: the messages of the open socket.  A message is a text:    *)
(* the JSON text of a value, or a text that is no JSON.  onmessage parses  *)
(* the text and hands the value to incomingPackets$, whose subscriber is    *)
(* handlePacket; a text that does not parse is reported on the errors$ of  *)
(* the PacketManagerService.  The service is connected and the plugins are *)
(* loaded.                                                                 *)
(***************************************************************************)
MaxBadMessages == 2     \* messages that are no JSON per behaviour

ProjectSyncPacket(data) == [type |-> "ProjectSync", project |-> data]
CellUpdatePacket(cellId, data) == [type |-> "CellUpdate", cellId |-> cellId, cell |-> data]
CellMovePacket(cellId, fromIndex, toIndex) ==
    [type |-> "CellMove", cellId |-> cellId, fromIndex |-> fromIndex, toIndex |-> toIndex]
CellCreatePacket(data, index, parentCellId) ==
    [type |-> "CellCreate", cell |-> data, index |-> index, parentCellId |-> parentCellId]
CellDeletePacket(cellId, parentCellId) ==
    [type |-> "CellDelete", cellId |-> cellId, parentCellId |-> parentCellId]
\* valid JSON whose type is none of the five
PingPacket == [type |-> "Ping"]

MessagePackets ==
    {ProjectSyncPacket(data) : data \in SyncProjects}
    \cup {CellUpdatePacket(cellId, data) : cellId \in UpdateIds, data \in UpdateCells}
    \cup {CellMovePacket(cellId, fromIndex, toIndex) :
             cellId \in MoveIds, fromIndex \in MoveFrom, toIndex \in MoveTo}
    \cup {CellCreatePacket(data, index, parentCellId) :
             data \in CreateCells, index \in CreateIndex, parentCellId \in CreateParents}
    \cup {CellDeletePacket(cellId, parentCellId) :
             cellId \in DeleteIds, parentCellId \in DeleteParents}
    \cup {PingPacket}

\* JSON.stringify(value), and two texts that are no JSON
JSONstringify(value) == <<"J", value>>
NotJSON == {<<"?", 0>>, <<"?", 1>>}
Messages == {JSONstringify(packet) : packet \in MessagePackets} \cup NotJSON

\* JSON.parse(json): the value, or a SyntaxError
JSONparse(json) ==
    IF json[1] = "J" THEN [threw |-> FALSE, value |-> json[2]]
                     ELSE [threw |-> TRUE, value |-> PingPacket]

\* the switch of handlePacket; the default branch warns on the console
handlePacket(packet) ==
    CASE packet.type = "ProjectSync" -> HandleProjectSync(packet.project)
      [] packet.type = "CellUpdate" -> HandleCellUpdate(packet.cellId, packet.cell)
      [] packet.type = "CellMove" ->
            HandleCellMove(packet.cellId, packet.fromIndex, packet.toIndex)
      [] packet.type = "CellCreate" ->
            HandleCellCreate(packet.cell, packet.index, packet.parentCellId)
      [] packet.type = "CellDelete" -> HandleCellDelete(packet.cellId, packet.parentCellId)
      [] OTHER ->
            /\ Receive
            /\ ev' = PacketEv(packet.type, "", FALSE, FALSE)
            /\ UNCHANGED <<heap, project, registry, ready, runs, cellStates,
                           isProcessingIncomingPacket, isConnected, outbox, errors,
                           nCalls, quiet>>

\* a catch that also gives up the connection
onParseErrorDisconnects(m) == [disconnect(m) EXCEPT !.errors = @ + 1]

\* the catch of onmessage: one emission on errors$
onParseError(m) == [m EXCEPT !.errors = @ + 1]

\* the message event of socket s with the text json
OnMessage(s, json) ==
    /\ s \in 1..Len(sockets)
    /\ sockets[s].readyState = "OPEN"
    /\ LET parsed == JSONparse(json) IN
       IF parsed.threw THEN
           /\ transportErrors < MaxBadMessages
           /\ Becomes(onParseError(Manager), ManagerEv("message", s, 0))
       ELSE
           handlePacket(parsed.value)

\* connect() has been called once and its socket has opened
InitMessages ==
    /\ ws = 1
    /\ sockets = <<[readyState |-> "OPEN", opened |-> TRUE]>>
    /\ reconnectAttempts = 0
    /\ reconnectTimeout = None
    /\ delays = <<>>
    /\ transportErrors = 0
    /\ isConnected = TRUE
    /\ heap = InitHeap
    /\ project = InitProject
    /\ runs = <<>>
    /\ cellStates = NoCellStates
    /\ isProcessingIncomingPacket = FALSE
    /\ outbox = <<>>
    /\ errors = 0
    /\ nCalls = 0
    /\ quiet = {}
    /\ ev = Ev("init", None, None, None)
    /\ nPackets = MaxInbound
    /\ ready = TRUE
    /\ registry = Registry(MaxFunctions)

NextMessages ==
    \/ \E s \in 1..MaxSockets, json \in Messages : OnMessage(s, json)
    \/ \E r \in 1..MaxRuns, o \in AppMetaOutcomes : MetaReturns(r, o)
    \/ \E r \in 1..MaxRuns, o \in AppMainOutcomes : MainReturns(r, o)

SpecMessages == InitMessages /\ [][NextMessages]_vars

(***************************************************************************)
(* SpecRepeat: propagateFrom called again and again on one Project, each   *)
(* call after the one before has completed, with no edit in between and a  *)
(* deterministic executor: its one function accepts every cell and answers *)
(* the input Context extended by the variable named after the latex.  The  *)
(* first call is for the first top-level cell.  The Project is the one of  *)
(* the editor, or one that came with a ProjectSync: its equation cells     *)
(* have the stored Context of the packet, or none.                         *)
(***************************************************************************)
MaxRepeat == 3      \* propagateFrom calls per behaviour

\* the tree [ Eq c1 "a", Eq c6 "b", Folder c2 [ Eq c3 "c" ], Note c4,
\* Eq c5 "b" ] as deserialized: c1 and c3 with a Context, c6 and c5 without
SyncedHeap ==
    << EquationCell("c1", "a", Some({"a"}), None),
       FolderCell("c2", "a", <<3>>),
       EquationCell("c3", "c", Some({"c"}), None),
       NoteCell("c4", "b"),
       EquationCell("c5", "b", None, None),
       EquationCell("c6", "b", None, None) >>

SyncedProject == [gen |-> 0, cells |-> <<1, 6, 2, 4, 5>>, updatedAt |-> 0]

\* the answers of the deterministic executor
RepeatMeta == [ok |-> TRUE, use |-> TRUE, index |-> 2]
RepeatMain == [ok |-> TRUE, ctx |-> "extend", sol |-> TRUE]

InitRepeat ==
    /\ InitManager
    /\ \/ heap = InitHeap /\ project = InitProject
       \/ heap = SyncedHeap /\ project = SyncedProject
    /\ registry \in {Registry(n) : n \in 0..MaxFunctions}
    /\ ready = TRUE
    /\ runs = <<>>
    /\ cellStates = NoCellStates
    /\ isProcessingIncomingPacket = FALSE
    /\ isConnected = FALSE
    /\ outbox = <<>>
    /\ errors = 0
    /\ nPackets = 0
    /\ nCalls = 0
    /\ quiet = {}
    /\ ev = Ev("init", None, None, None)

\* propagateFrom(cellId) once no run is in flight; the first call is for the
\* first top-level cell
PropagateAgain(cellId) ==
    /\ runs = <<>>
    /\ nCalls = 0 => cellId = heap[project.cells[1]].id
    /\ UpdateContextWithin(cellId, MaxRepeat, MaxRuns)

NextRepeat ==
    \/ \E cellId \in Ids : PropagateAgain(cellId)
    \/ \E r \in 1..MaxRuns : MetaReturns(r, RepeatMeta)
    \/ \E r \in 1..MaxRuns : MainReturns(r, RepeatMain)

SpecRepeat == InitRepeat /\ [][NextRepeat]_vars

(***************************************************************************)
(* SpecOverlap: local edits and inbound CellMove packets that arrive while *)
(* earlier propagation runs are suspended at an executor call.  Nothing in *)
(* onCellUpdated or propagateContextFromIndex looks for a run in flight,   *)
(* so up to MaxOverlap activations are suspended at the same time.  The    *)
(* executor is the deterministic one of SpecRepeat.                        *)
(***************************************************************************)
MaxOverlap == 2     \* activations suspended at the same time, calls made

\* the CellMove packets: an equation cell or a note to the front or the end
OverlapMoveIds == {"c4", "c5"}
OverlapMoveTo == {0, 3}

InitOverlap ==
    /\ InitCommon
    /\ nPackets = MaxPackets
    /\ ready = TRUE
    /\ isConnected = TRUE
    /\ registry = Registry(MaxFunctions)

NextOverlap ==
    \/ \E o \in Reachable, t \in EditTexts : LocalEditWithin(o, t, MaxOverlap, MaxOverlap)
    \/ \E cellId \in OverlapMoveIds, toIndex \in OverlapMoveTo :
          HandleCellMoveWithin(cellId, 0, toIndex, MaxOverlap)
    \/ \E r \in 1..MaxOverlap : MetaReturns(r, RepeatMeta)
    \/ \E r \in 1..MaxOverlap : MainReturns(r, RepeatMain)

SpecOverlap == InitOverlap /\ [][NextOverlap]_vars

(***************************************************************************)
(* Properties of the propagation engine (SpecEngine, SpecSelect).          *)
(***************************************************************************)
\* the loop activation a suspended run is in
TopFrame(run) == run.frames[Len(run.frames)]

\* the place of a function in registration order
registeredAt(reg, functionName) == CHOOSE p \in 1..Len(reg) : reg[p] = functionName

IsPrefix(s, t) == Len(s) <= Len(t) /\ SubSeq(t, 1, Len(s)) = s

\* C1: the input Context of the first equation cell a loop resolves after
\* one or more folders is the running Context the loop had when it entered
\* the first of them: nothing computed inside a folder reaches a cell after
\* it.
FolderIsolation ==
    \A r \in 1..Len(runs) :
        (IsSome(runs[r].res) /\ IsSome(TopFrame(runs[r]).pre))
            => Get(runs[r].res).input = Get(TopFrame(runs[r]).pre)

\* C1 witness: c5, after the folder c2, is being resolved with {a} while c3
\* inside the folder has stored {a, c}
FolderIsolationWitness ==
    \E r \in 1..Len(runs) :
        /\ IsSome(runs[r].res)
        /\ IsSome(TopFrame(runs[r]).pre)
        /\ heap[Get(runs[r].res).cell].id = "c5"
        /\ Get(runs[r].res).input = {"a"}
        /\ heap[3].ctx = Some({"a", "c"})

\* C2: in a run during which no packet changes the tree, the equation cells
\* from the start index on are resolved in document order, each exactly
\* once, and the input Context of each is what the resolution of the
\* nearest preceding equation cell of its loop returned (the seed for the
\* first one).
SequentialPropagation ==
    /\ \A r \in 1..Len(runs) :
          /\ runs[r].clean => IsPrefix(runs[r].resolved, runs[r].plan)
          /\ IsSome(runs[r].res) =>
                Get(runs[r].res).input = TopFrame(runs[r]).ret
    /\ (IsSome(ev.fin) /\ Get(ev.fin).clean) =>
          Get(ev.fin).resolved = Get(ev.fin).plan

\* C2 witness: a run from c1 has ended after resolving c1, c3 and c5 with
\* an extending function: c1 stores {a}, c5 stores {a, b}
SequentialPropagationWitness ==
    /\ IsSome(ev.fin)
    /\ Get(ev.fin).resolved = <<1, 3, 5>>
    /\ heap[1].ctx = Some({"a"})
    /\ heap[5].ctx = Some({"a", "b"})

\* C3: when the main call is out, it is out for one usable candidate, no
\* usable candidate has a lower priority index, and none with the same
\* index was registered earlier; a resolution with a usable candidate does
\* not return before its main call.
LowestIndexFirstRegistered ==
    /\ \A r \in 1..Len(runs) :
          (IsSome(runs[r].res) /\ Get(runs[r].res).phase = "main") =>
             LET res == Get(runs[r].res) IN
             \E j \in 1..Len(res.meta) :
                /\ res.meta[j].functionName = res.sel
                /\ res.meta[j].use
                /\ \A i \in 1..Len(res.meta) :
                      res.meta[i].use =>
                         \/ res.meta[j].index < res.meta[i].index
                         \/ /\ res.meta[j].index = res.meta[i].index
                            /\ registeredAt(registry, res.sel)
                                  <= registeredAt(registry, res.meta[i].functionName)
    /\ (IsSome(ev.res) /\ Get(ev.res).usable > 0) => Get(ev.res).mainCalled

\* C3 witness: four usable candidates with indices 5, 2, 2, 9 in
\* registration order, the main call is out for the second
LowestIndexFirstRegisteredWitness ==
    \E r \in 1..Len(runs) :
        /\ IsSome(runs[r].res)
        /\ Get(runs[r].res).phase = "main"
        /\ [i \in 1..Len(Get(runs[r].res).meta) |-> Get(runs[r].res).meta[i].index]
              = <<5, 2, 2, 9>>
        /\ \A i \in 1..4 : Get(runs[r].res).meta[i].use
        /\ Get(runs[r].res).sel = "f2"

\* C4: after the resolution of an equation cell for which no meta-call
\* answered useResult = true, the cell's stored Context is the input
\* Context, its solutions are what they were, and the input Context is
\* what the walk goes on with.
NoUsableCandidatePassThrough ==
    (IsSome(ev.res) /\ Get(ev.res).usable = 0) =>
        /\ heap[Get(ev.res).cell].ctx = Some(Get(ev.res).input)
        /\ heap[Get(ev.res).cell].sol = Get(ev.res).solBefore
        /\ Get(ev.res).ret = Get(ev.res).input

\* C5: after a main call that failed, the resolution has returned the
\* input Context, the cell's stored Context is the input Context and its
\* solutions are what they were.
MainCallFailurePassThrough ==
    (IsSome(ev.res) /\ Get(ev.res).mainCalled /\ ~Get(ev.res).mainOk) =>
        /\ Get(ev.res).ret = Get(ev.res).input
        /\ heap[Get(ev.res).cell].ctx = Some(Get(ev.res).input)
        /\ heap[Get(ev.res).cell].sol = Get(ev.res).solBefore

\* C6: every registered function gets its meta-call whatever the earlier
\* ones answered - while the meta-calls are out, each earlier one has either
\* given a result or failed, and the main call goes out only after all of
\* them - and the main call is for a usable candidate with the lowest index
\* among the results of the functions that did not fail.
FailingMetaCallSkipped ==
    \A r \in 1..Len(runs) :
        IsSome(runs[r].res) =>
           LET res == Get(runs[r].res) IN
           /\ res.phase = "meta" => Len(res.meta) + res.fails = res.k - 1
           /\ res.phase = "main" =>
                 /\ res.k = Len(registry)
                 /\ Len(res.meta) + res.fails = Len(registry)
                 /\ \E j \in 1..Len(res.meta) :
                       /\ res.meta[j].functionName = res.sel
                       /\ res.meta[j].use
                       /\ \A i \in 1..Len(res.meta) :
                             res.meta[i].use => res.meta[j].index <= res.meta[i].index

\* C6 witness: the meta-call of f1 failed, those of f2 and f3 were made and
\* the main call is out for f3, the usable candidate with the lowest index
FailingMetaCallSkippedWitness ==
    \E r \in 1..Len(runs) :
        /\ IsSome(runs[r].res)
        /\ Get(runs[r].res).phase = "main"
        /\ Get(runs[r].res).fails = 1
        /\ Len(Get(runs[r].res).meta) = 2
        /\ Get(runs[r].res).meta[1].functionName = "f2"
        /\ Get(runs[r].res).meta[1].index = 5
        /\ Get(runs[r].res).meta[2].index = 2
        /\ Get(runs[r].res).sel = "f3"

\* C7: a call of updateContext with an id that is in no cell of the tree
\* raises not-found and changes nothing: no cell, not the project (its
\* updatedAt included), and no executor call is issued.
NotFoundChangesNothing ==
    [][(nCalls' # nCalls /\ ev'.type = "notFound")
          => /\ findCellWithParent(heap, project.cells, UnknownId) = NotFound
             /\ heap' = heap
             /\ project' = project
             /\ runs' = runs
             /\ cellStates' = cellStates
             /\ outbox' = outbox]_vars

\* C7 witness: a call with an unknown id has been made
NotFoundChangesNothingWitness ==
    /\ ev.type = "notFound"
    /\ nCalls > 0

\* the cells of the subtree of cell object o
RECURSIVE SubtreeOf(_, _)
SubtreeOf(h, o) ==
    {o} \cup (IF h[o].type = "folder"
              THEN UNION {SubtreeOf(h, h[o].kids[j]) : j \in 1..Len(h[o].kids)}
              ELSE {})

\* the cells at or after index i of array a, with the descendants of the
\* folders among them
AtOrAfter(h, a, i) == UNION {SubtreeOf(h, a[j]) : j \in i..Len(a)}

\* C33: a step of a run that updateContext started at index i of array A
\* changes no cell but those at or after i in A and the descendants of the
\* folders among them: no cell before i in A, no cell outside A otherwise
RunTouchesOnlyFromStart ==
    [][\A r \in 1..MaxRuns :
          (\/ \E o \in MetaOutcomes(EngineIndices) : MetaReturns(r, o)
           \/ \E o \in MainOutcomes({"none", "extend", "replace"}) : MainReturns(r, o))
          => \A c \in 1..Len(heap) :
                heap'[c] # heap[c] =>
                   c \in AtOrAfter(heap, ArrayOf(heap, project.cells, runs[r].from.arr),
                                   runs[r].from.index)]_vars

\* C33 witness: a run that started at c3, inside the folder c2, has resolved
\* c3 and stored its context, and has ended with c1 and c5, outside the
\* folder, as they were
RunTouchesOnlyFromStartWitness ==
    /\ ev.type = "return"
    /\ IsSome(ev.fin)
    /\ Get(ev.fin).plan = <<3>>
    /\ Get(ev.fin).resolved = <<3>>
    /\ heap[3].ctx # InitHeap[3].ctx
    /\ heap[1] = InitHeap[1]
    /\ heap[5] = InitHeap[5]

\* what an answer to the call that run r awaits must have done: nothing is
\* written but to the cell the call was for; while the resolution goes on,
\* nothing is written and one more call for the same cell is out; when a
\* later cell begins, the resolution had finished (`finished`), what it
\* stores is in the cell, and the later cell's first meta-call is out
AnswerInTurn(r, finished) ==
    LET run == runs[r]
        res == Get(run.res)
    IN /\ \A c \in 1..Len(heap) : heap'[c] # heap[c] => c = res.cell
       /\ Len(runs') = Len(runs) =>
             LET next == Get(runs'[r].res) IN
             IF Len(runs'[r].resolved) = Len(run.resolved)
             THEN /\ ~finished
                  /\ heap' = heap
                  /\ next.cell = res.cell
                  /\ \/ next.phase = "meta" /\ res.phase = "meta" /\ next.k = res.k + 1
                     \/ next.phase = "main" /\ res.phase = "meta"
             ELSE /\ finished
                  /\ IsSome(ev'.res)
                  /\ Get(ev'.res).cell = res.cell
                  /\ Get(ev'.res).mainOk =>
                        heap'[res.cell].ctx = Some(Get(ev'.res).ret)
                  /\ next = NewResolution(next.cell, next.input)
                  /\ next.cell # res.cell
                  /\ runs'[r].resolved = Append(run.resolved, next.cell)

\* C34: a run awaits exactly one executor call at any time, a call for the
\* cell it began last; and the answer to it either continues the resolution
\* of that cell or ends it - every registered function asked, the selected
\* function's main call answered if any was usable, the Context stored -
\* before the first call for a later cell goes out
OneCallAtATime ==
    /\ [](\A r \in 1..Len(runs) :
             /\ IsSome(runs[r].res)
             /\ runs[r].resolved # <<>>
             /\ Get(runs[r].res).cell = runs[r].resolved[Len(runs[r].resolved)]
             /\ Get(runs[r].res).k \in 1..Len(registry)
             /\ Get(runs[r].res).phase \in {"meta", "main"})
    /\ [][\A r \in 1..MaxRuns :
             /\ \A o \in MetaOutcomes(EngineIndices) :
                   MetaReturns(r, o) =>
                      LET res == Get(runs[r].res) IN
                      AnswerInTurn(r, /\ res.k = Len(registry)
                                      /\ usableResults(pushMetaResult(
                                            res.meta, registry[res.k], o)) = <<>>)
             /\ \A o \in MainOutcomes({"none", "extend", "replace"}) :
                   MainReturns(r, o) => AnswerInTurn(r, TRUE)]_vars

\* C34 witness: the run has stored the Context of c1 that the main call
\* returned, and the first meta-call for c3, the next cell, is out
OneCallAtATimeWitness ==
    /\ Len(runs) = 1
    /\ runs[1].resolved = <<1, 3>>
    /\ Get(runs[1].res) = NewResolution(3, {"a"})
    /\ ev.type = "return"
    /\ Get(ev.res).mainOk
    /\ heap[1].ctx = Some({"a"})

(***************************************************************************)
(* Properties of the synchronisation layer (Spec).                         *)
(***************************************************************************)
\* the Project tree as data
Tree == [j \in 1..Len(project.cells) |-> serialize(heap, project.cells[j])]

\* C8: an outbound CellUpdate is never sent for a cell whose last change
\* was an inbound CellUpdate (no local edit of it since).
EchoSuppression ==
    (IsSome(ev.fin) /\ Get(ev.fin).sent) => Get(ev.fin).cellId \notin quiet

InboundChangeStartsRun ==
    [][(/\ nPackets' # nPackets
        /\ IsSome(ev'.pkt)
        /\ Get(ev'.pkt).applied
        /\ Tree' # Tree)
          => Get(ev'.pkt).startedRun]_vars

(***************************************************************************)
(* Frame effect of a run.                                                  *)
(***************************************************************************)
\* a step of a propagation run: the executor answers a call of the run
RunStep ==
    \E r \in 1..MaxRuns :
        \/ \E o \in AppMetaOutcomes : MetaReturns(r, o)
        \/ \E o \in AppMainOutcomes : MainReturns(r, o)

\* c and d differ at most in context, solutions and updatedAt
SameButDerived(c, d) ==
    [d EXCEPT !.ctx = c.ctx, !.sol = c.sol, !.updatedAt = c.updatedAt] = c

\* C11: a step of a propagation run changes only context, solutions and
\* updatedAt of equation cells: no cell's text, type, id, children or
\* fingerprint changes, nor the top-level array, and a packet leaves at the
\* end of a run only where onCellUpdated had found the fingerprint changed
\* before the run began.
RunFrameEffect ==
    [][RunStep =>
          /\ Len(heap') = Len(heap)
          /\ \A o \in 1..Len(heap) :
                /\ \/ heap'[o] = heap[o]
                   \/ heap[o].type = "equation" /\ SameButDerived(heap[o], heap'[o])
                /\ serializeCellState(heap'[o]) = serializeCellState(heap[o])
          /\ project'.cells = project.cells
          /\ project'.gen = project.gen
          /\ outbox' # outbox =>
                \E r \in 1..Len(runs) : runs[r].kind = "local" /\ runs[r].hasChanged]_vars

\* C11 witness: a run that followed an inbound packet has resolved c1, whose
\* context, solutions and updatedAt it wrote, and has ended with no packet sent
RunFrameEffectWitness ==
    /\ ev.type = "return"
    /\ IsSome(ev.res)
    /\ Get(ev.res).mainOk
    /\ heap[Get(ev.res).cell].id = "c1"
    /\ heap[Get(ev.res).cell].ctx # Get(ev.res).ctxBefore
    /\ heap[Get(ev.res).cell].sol # Get(ev.res).solBefore
    /\ heap[Get(ev.res).cell].updatedAt = Now
    /\ IsSome(ev.fin)
    /\ Get(ev.fin).kind # "local"
    /\ nPackets < MaxPackets
    /\ outbox = <<>>

\* C28: when onCellUpdated(c) completes after an inbound CellUpdate for c
\* was applied during its propagation (the last change of c is that packet
\* and the cell object onCellUpdated holds is no longer the one in the
\* tree), the cache entry of c is the fingerprint of the cell with id c
\* that is in the tree.
CacheMatchesTreeAfterRace ==
    (/\ IsSome(ev.fin)
     /\ Get(ev.fin).kind = "local"
     /\ ~Get(ev.fin).clean
     /\ Get(ev.fin).cellId \in quiet) =>
        LET c == findCell(heap, project.cells, Get(ev.fin).cellId) IN
        (c.found /\ c.cell # Get(ev.fin).held) =>
            cellStates[Get(ev.fin).cellId] = Some(serializeCellState(heap[c.cell]))

\* the cache holds, for every cell of the tree, an entry for its id equal to
\* the cell's fingerprint, and no entry for an id that is not in the tree
CacheIsExact(cs, h, pc) ==
    /\ \A o \in ReachableFrom(h, pc) : cs[h[o].id] = Some(serializeCellState(h[o]))
    /\ \A id \in Ids :
          IsSome(cs[id]) => \E o \in ReachableFrom(h, pc) : h[o].id = id

\* C29: an inbound packet that is applied to a tree whose cache is exact
\* (built, and no local edit pending) leaves a cache that is exact for the
\* new tree: every cell at any depth has its fingerprint, no id that left
\* the tree has an entry.
CacheExactAfterPacket ==
    [][(/\ nPackets' < nPackets
        /\ IsSome(ev'.pkt)
        /\ Get(ev'.pkt).applied
        /\ CacheIsExact(cellStates, heap, project.cells)) =>
           CacheIsExact(cellStates', heap', project'.cells)]_vars

(***************************************************************************)
(* Properties of the packet handler (SpecPackets).                         *)
(***************************************************************************)
\* the last event is the handling of a packet of type ptype for cellId
LastPacket(ptype, cellId, applied) ==
    /\ ev.type = "packet"
    /\ IsSome(ev.pkt)
    /\ Get(ev.pkt).ptype = ptype
    /\ Get(ev.pkt).cellId = cellId
    /\ Get(ev.pkt).applied = applied

\* C12: a CellMove of a cell of the tree whose toIndex is negative or not
\* below the length of the array that holds the cell changes no cell, no
\* array and no timestamp, emits one error and no move event, and starts no
\* run.
InvalidMoveRejected ==
    [][\A cellId \in PacketMoveIds, fromIndex \in PacketMoveFrom, toIndex \in PacketMoveTo :
          LET found == findCellWithParent(heap, project.cells, cellId) IN
          (/\ HandleCellMove(cellId, fromIndex, toIndex)
           /\ found.found
           /\ \/ toIndex < 0
              \/ toIndex >= Len(ArrayOf(heap, project.cells, found.arr)))
             => /\ heap' = heap
                /\ project' = project
                /\ errors' = errors + 1
                /\ runs' = runs
                /\ cellStates' = cellStates
                /\ ~Get(ev'.pkt).applied
                /\ ~Get(ev'.pkt).startedRun]_vars

\* C12 witness: a CellMove of c3, the only cell of folder c2, has been
\* rejected while c3 is in the tree (its toIndex was not below 1)
InvalidMoveRejectedWitness ==
    /\ LastPacket("CellMove", "c3", FALSE)
    /\ findCell(heap, project.cells, "c3").found
    /\ errors > 0

\* C13: an applied CellMove of an equation cell from its index s to toIndex
\* starts a run that re-derives every equation cell at or below an index
\* >= min(s, toIndex) of the array after the move, the equation cells of the
\* folders at those indices included.
MoveRestartsAtMin ==
    [][\A cellId \in PacketMoveIds, fromIndex \in PacketMoveFrom, toIndex \in PacketMoveTo :
          LET found == findCellWithParent(heap, project.cells, cellId)
              s == found.index - 1
          IN
          (/\ HandleCellMove(cellId, fromIndex, toIndex)
           /\ found.found
           /\ heap[found.cell].type = "equation"
           /\ toIndex >= 0
           /\ toIndex < Len(ArrayOf(heap, project.cells, found.arr)))
             => /\ Get(ev'.pkt).startedRun
                /\ runs' # <<>>
                /\ runs'[Len(runs')].plan =
                      EquationsFrom(heap', ArrayOf(heap', project'.cells, found.arr),
                                    Min(s, toIndex) + 1)]_vars

\* C14: a CellUpdate whose cellId is in the tree and whose cell decodes
\* puts the deserialized packet cell, a new object, into the slot that held
\* the cell and changes no other slot, no length, no other array and no
\* other cell; a CellUpdate whose cellId is not in the tree changes nothing
\* and emits an error.
UpdateReplacesSlot ==
    [][\A cellId \in PacketUpdateIds, data \in PacketUpdateCells :
          HandleCellUpdate(cellId, data) =>
             LET found == findCellWithParent(heap, project.cells, cellId)
                 a == ArrayOf(heap, project.cells, found.arr)
                 a2 == ArrayOf(heap', project'.cells, found.arr)
             IN
             /\ found.found /\ Decodable(data) =>
                   /\ Len(a2) = Len(a)
                   /\ \A j \in 1..Len(a) : j # found.index => a2[j] = a[j]
                   /\ a2[found.index] \notin 1..Len(heap)
                   /\ serialize(heap', a2[found.index]) = data
                   /\ \A o \in 1..Len(heap) :
                         \/ heap'[o] = heap[o]
                         \/ /\ found.arr = FolderRef(o)
                            /\ heap'[o] = [heap[o] EXCEPT !.kids = a2]
                   /\ found.arr # TopRef => project'.cells = project.cells
                   /\ errors' = errors
             /\ ~found.found =>
                   /\ heap' = heap
                   /\ project' = project
                   /\ errors' = errors + 1]_vars

\* C14 witness: a CellUpdate of c3 has been applied inside folder c2, whose
\* only slot now holds the note of the packet
UpdateReplacesSlotWitness ==
    /\ LastPacket("CellUpdate", "c3", TRUE)
    /\ LET found == findCellWithParent(heap, project.cells, "c3") IN
       /\ found.found
       /\ found.arr.k = "folder"
       /\ heap[found.arr.o].id = "c2"
       /\ Len(heap[found.arr.o].kids) = 1
       /\ heap[found.cell].type = "note"
       /\ heap[found.cell].text = "b"

\* this step inserted the deserialized `data` at `index` (0-based, at most
\* the length) of the array `ref`: the array is one longer, the new cell is
\* at that index, the other cells keep their order, and no other array or
\* cell changed
InsertedAt(ref, index, data) ==
    LET a == ArrayOf(heap, project.cells, ref)
        a2 == ArrayOf(heap', project'.cells, ref)
    IN /\ index \in 0..Len(a) =>
             /\ Len(a2) = Len(a) + 1
             /\ a2[index + 1] \notin 1..Len(heap)
             /\ serialize(heap', a2[index + 1]) = data
             /\ \A j \in 1..Len(a) : a2[IF j <= index THEN j ELSE j + 1] = a[j]
       /\ \A o \in 1..Len(heap) :
             \/ heap'[o] = heap[o]
             \/ ref = FolderRef(o) /\ heap'[o] = [heap[o] EXCEPT !.kids = a2]
       /\ ref # TopRef => project'.cells = project.cells
       /\ errors' = errors

\* this step changed nothing of the tree and emitted an error
RejectedUnchanged ==
    /\ heap' = heap
    /\ project' = project
    /\ errors' = errors + 1

\* the folder object that parentCellId names, 0 if it names no folder
NamedFolder(parentCellId) ==
    LET parent == findCell(heap, project.cells, parentCellId) IN
    IF parent.found /\ heap[parent.cell].type = "folder" THEN parent.cell ELSE 0

\* C15 as stated: a CellCreate whose cell decodes inserts it at the index
\* into the top-level array when parentCellId is absent and into the
\* children of the folder that parentCellId names; a parentCellId that
\* names no folder is rejected with an error and no mutation.
CreateInsertsOrRejects ==
    [][\A data \in PacketCreateCells, index \in PacketCreateIndex,
          parentCellId \in PacketParents :
          HandleCellCreate(data, index, parentCellId) /\ Decodable(data) =>
             IF parentCellId = None THEN InsertedAt(TopRef, index, data)
             ELSE IF NamedFolder(Get(parentCellId)) # 0
                  THEN InsertedAt(FolderRef(NamedFolder(Get(parentCellId))), index, data)
                  ELSE RejectedUnchanged]_vars

\* C15 amended: the same, with an empty parentCellId taken as an absent one:
\* only a non-empty parentCellId that names no folder is rejected.
CreateInsertsOrRejectsNonEmpty ==
    [][\A data \in PacketCreateCells, index \in PacketCreateIndex,
          parentCellId \in PacketParents :
          HandleCellCreate(data, index, parentCellId) /\ Decodable(data) =>
             IF parentCellId = None \/ parentCellId = Some("")
             THEN InsertedAt(TopRef, index, data)
             ELSE IF NamedFolder(Get(parentCellId)) # 0
                  THEN InsertedAt(FolderRef(NamedFolder(Get(parentCellId))), index, data)
                  ELSE RejectedUnchanged]_vars

\* C15 witness: a CellCreate has put the equation c6 at index 1, the end, of
\* the children of folder c2, after the cell that was there
CreateInsertsOrRejectsNonEmptyWitness ==
    /\ LastPacket("CellCreate", "c6", TRUE)
    /\ LET found == findCellWithParent(heap, project.cells, "c6") IN
       /\ found.found
       /\ found.arr.k = "folder"
       /\ heap[found.arr.o].id = "c2"
       /\ found.index = 2
       /\ Len(heap[found.arr.o].kids) = 2
       /\ heap[heap[found.arr.o].kids[1]].id = "c3"

\* C16: a CellDelete removes the cell from its target array alone, the
\* top-level array when parentCellId is absent and the children of the
\* folder it names otherwise; where parentCellId names no folder or no cell
\* of the target array has the id, the packet is rejected with an error and
\* nothing changes.
DeleteFromTargetOnly ==
    [][\A cellId \in PacketDeleteIds, parentCellId \in PacketDeleteParents :
          HandleCellDelete(cellId, parentCellId) =>
             LET folder == IF parentCellId = None THEN 0
                           ELSE NamedFolder(Get(parentCellId))
                 ref == IF parentCellId = None THEN TopRef ELSE FolderRef(folder)
                 a == ArrayOf(heap, project.cells, ref)
                 a2 == ArrayOf(heap', project'.cells, ref)
             IN IF /\ parentCellId = None \/ folder # 0
                   /\ \E j \in 1..Len(a) : heap[a[j]].id = cellId
                THEN /\ Len(a2) = Len(a) - 1
                     /\ \A j \in 1..Len(a2) : heap[a2[j]].id # cellId
                     /\ \A o \in 1..Len(heap) : heap'[o] = heap[o] \/ ref = FolderRef(o)
                     /\ ref # TopRef => project'.cells = project.cells
                ELSE RejectedUnchanged]_vars

\* the packet cell holds, at some depth, a type that is no cell type
RECURSIVE HasUnknownType(_)
HasUnknownType(data) ==
    \/ data.type \notin {"equation", "folder", "note"}
    \/ /\ IsSome(data.cells)
       /\ \E j \in 1..Len(Get(data.cells)) : HasUnknownType(Get(data.cells)[j])

\* the ids of the cells of the tree
TreeIds == {heap[o].id : o \in Reachable}

FailedPacketDoesNotStopHandling ==
    (errors > 0 /\ isConnected /\ nPackets > 0) =>
        /\ \A data \in PacketCreateCells :
              ~HasUnknownType(data) =>
                 ENABLED (/\ HandleCellCreate(data, 0, None)
                          /\ Get(ev'.pkt).applied
                          /\ InsertedAt(TopRef, 0, data))
        /\ \A data \in PacketSyncProjects :
              (\A j \in 1..Len(data.cells) : ~HasUnknownType(data.cells[j])) =>
                 ENABLED (/\ HandleProjectSync(data)
                          /\ Get(ev'.pkt).applied
                          /\ errors' = errors
                          /\ Len(project'.cells) = Len(data.cells))

\* C18 witness: a packet failed, and the CellCreate of c6 that came after it
\* has been applied
FailedPacketDoesNotStopHandlingWitness ==
    /\ errors > 0
    /\ LastPacket("CellCreate", "c6", TRUE)
    /\ findCell(heap, project.cells, "c6").found

\* C19: the ids of the cells of the tree, those inside folders included,
\* are pairwise distinct in every state that inbound packets lead to.
IdsPairwiseDistinct ==
    \A o1, o2 \in Reachable : o1 # o2 => heap[o1].id # heap[o2].id

\* C24: a ProjectSync that is applied leaves the tree of the packet, made of
\* new cell objects only, and a cache that holds the fingerprint of every
\* cell of that tree, at every depth, under its id and no other entry.
SyncReplacesProjectAndCache ==
    [][\A data \in PacketSyncProjects :
          (/\ HandleProjectSync(data)
           /\ \A j \in 1..Len(data.cells) : Decodable(data.cells[j])) =>
             /\ Tree' = data.cells
             /\ ReachableFrom(heap', project'.cells) \cap (1..Len(heap)) = {}
             /\ CacheIsExact(cellStates', heap', project'.cells)]_vars

\* C30: a CellMove of a cell of the tree with 0 <= toIndex < length of the
\* array that holds the cell puts the cell at toIndex of that array, keeps
\* its length and the order of its other cells, changes no other array and
\* no cell, and does the same whatever fromIndex the packet declares.
MovePlacesAtToIndex ==
    [][\A cellId \in PacketMoveIds, fromIndex \in PacketMoveFrom, toIndex \in PacketMoveTo :
          LET found == findCellWithParent(heap, project.cells, cellId)
              a == ArrayOf(heap, project.cells, found.arr)
              a2 == ArrayOf(heap', project'.cells, found.arr)
          IN
          (/\ HandleCellMove(cellId, fromIndex, toIndex)
           /\ found.found
           /\ 0 <= toIndex /\ toIndex < Len(a))
             => /\ Len(a2) = Len(a)
                /\ a2[toIndex + 1] = found.cell
                /\ RemoveAt(a2, toIndex + 1) = RemoveAt(a, found.index)
                /\ \A o \in 1..Len(heap) :
                      \/ heap'[o] = heap[o]
                      \/ /\ found.arr = FolderRef(o)
                         /\ heap'[o] = [heap[o] EXCEPT !.kids = a2]
                /\ Len(heap') = Len(heap)
                /\ found.arr # TopRef => project'.cells = project.cells
                /\ errors' = errors
                /\ Get(ev'.pkt).applied
                /\ \A other \in PacketMoveFrom : HandleCellMove(cellId, other, toIndex)]_vars

\* C30 witness: a CellMove of c1 to index 3 has been applied to the initial
\* tree: c1, which was at index 0, is the last of the four top-level cells
\* and the others have moved up in their order
MovePlacesAtToIndexWitness ==
    /\ LastPacket("CellMove", "c1", TRUE)
    /\ Len(project.cells) = 4
    /\ heap[project.cells[4]].id = "c1"
    /\ heap[project.cells[1]].id = "c2"
    /\ nPackets = MaxInbound - 1

\* C36: an applied CellMove of a Folder or Note cell starts no run: no
\* activation is added, none that is suspended is answered or advanced, and
\* every cell keeps the context and the solutions it had, whatever the new
\* order makes of the Context that precedes it
FolderOrNoteMoveStartsNoRun ==
    [][\A cellId \in PacketMoveIds, fromIndex \in PacketMoveFrom, toIndex \in PacketMoveTo :
          LET found == findCellWithParent(heap, project.cells, cellId) IN
          (/\ HandleCellMove(cellId, fromIndex, toIndex)
           /\ found.found
           /\ heap[found.cell].type \in {"folder", "note"}
           /\ Get(ev'.pkt).applied)
             => /\ ~Get(ev'.pkt).startedRun
                /\ Len(runs') = Len(runs)
                /\ \A r \in 1..Len(runs) :
                      /\ runs'[r].res = runs[r].res
                      /\ runs'[r].resolved = runs[r].resolved
                /\ Len(heap') = Len(heap)
                /\ \A o \in 1..Len(heap) :
                      /\ heap'[o].ctx = heap[o].ctx
                      /\ heap'[o].sol = heap[o].sol]_vars

\* C36 witness: c1 and c3 were resolved in the order c1, c3, so the Context
\* of c3 holds the variable of c1; then the folder c2 that holds c3 was moved
\* in front of c1: no run started, and c3 keeps its Context although no
\* Equation cell precedes it any more
FolderOrNoteMoveStartsNoRunWitness ==
    /\ LastPacket("CellMove", "c2", TRUE)
    /\ ~Get(ev.pkt).startedRun
    /\ project.cells[1] = 2
    /\ project.cells[2] = 1
    /\ heap[2].kids = <<3>>
    /\ heap[1].ctx = Some({"a"})
    /\ heap[3].ctx = Some({"a", "c"})

(***************************************************************************)
(* Properties of serialization (SpecRoundTrip).                            *)
(***************************************************************************)
\* C20: for every cell tree c, deserialize(serialize(c)) has the value of c,
\* field for field and child for child, and for every project p,
\* Project.fromJSON(p.toJSON()) has the value of p.
RoundTripIsIdentity ==
    /\ ev.type = "cell" =>
          /\ ~Get(ev.res).threw
          /\ CellValue(heap, Get(ev.res).back) = CellValue(heap, Get(ev.res).of)
    /\ ev.type = "project" =>
          /\ ~Get(ev.res).threw
          /\ ProjectValue(heap, project) = ProjectValue(heap, Get(ev.res).of)

\* the round trips that do not throw give back the value they were given,
\* in new objects, and they throw only where a date is the Invalid Date
RoundTripOfValidDates ==
    /\ ev.type = "cell" =>
          IF Get(ev.res).threw THEN ~CanSerialize(heap, Get(ev.res).of)
          ELSE /\ CellValue(heap, Get(ev.res).back) = CellValue(heap, Get(ev.res).of)
               /\ Get(ev.res).back # Get(ev.res).of
    /\ ev.type = "project" =>
          IF Get(ev.res).threw THEN ~CanToJSON(heap, project)
          ELSE ProjectValue(heap, project) = ProjectValue(heap, Get(ev.res).of)

(***************************************************************************)
(* Properties of the connection (SpecConnection).                          *)
(***************************************************************************)
\* C21: of the reconnects scheduled one after another with no open event in
\* between, the k-th is scheduled with delay 2000 * 2^(k-1)
BackoffDoubles ==
    \A k \in 1..Len(delays) : delays[k] = reconnectDelay * 2 ^ (k - 1)

\* C22: the reconnects scheduled one after another with no open event in
\* between are never more than maxReconnectAttempts
ReconnectsCapped ==
    Len(delays) <= maxReconnectAttempts

\* C23: a close event with code 1000 schedules no reconnect; a close event
\* with another code, while reconnectAttempts is below maxReconnectAttempts,
\* leaves a reconnect scheduled: the one already pending, or a new one
CloseCodeDecides ==
    [][\A s \in 1..MaxSockets, code \in CloseCodes :
          SocketCloses(s, code) =>
             IF code = 1000
             THEN /\ reconnectTimeout' = reconnectTimeout
                  /\ reconnectAttempts' = reconnectAttempts
                  /\ delays' = delays
             ELSE reconnectAttempts < maxReconnectAttempts =>
                     /\ IsSome(reconnectTimeout')
                     /\ IsSome(reconnectTimeout) => reconnectTimeout' = reconnectTimeout
                     /\ ~IsSome(reconnectTimeout) =>
                           /\ Len(delays') = Len(delays) + 1
                           /\ reconnectAttempts' = reconnectAttempts + 1]_vars

\* a close event with code 1006 has scheduled a reconnect, and a later close
\* event with code 1000, of a socket the service had dropped, schedules none
CloseCodeDecidesWitness ==
    /\ ev.type = "close"
    /\ ev.code = 1000
    /\ ~IsSome(reconnectTimeout)
    /\ Len(delays) = 1

\* C31: once disconnect() has left the service with no socket and no timer,
\* every turn of the event loop that is not a connect() of the App - the
\* close events of the sockets it closed, with whatever code - leaves it
\* so: no reconnect scheduled, no connection opened
DisconnectedUntilConnect ==
    [][(ws = 0 /\ ~IsSome(reconnectTimeout) /\ ev'.type # "connect")
          => /\ ws' = 0
             /\ ~IsSome(reconnectTimeout')
             /\ sockets' \in {sockets} \cup
                   {[sockets EXCEPT ![s].readyState = "CLOSED"] : s \in 1..Len(sockets)}]_vars

\* C32: the status connectionStatusSubject last published is true exactly
\* when the socket the service holds is open; the close event of a socket
\* that a later connect() replaced does not make it false
StatusIsCurrentSocketOpen ==
    isConnected <=> (ws # 0 /\ sockets[ws].readyState = "OPEN")

(***************************************************************************)
(* Properties of repeated propagation (SpecRepeat).                        *)
(***************************************************************************)
\* C25: with a deterministic executor and no edit, once the propagation from
\* the first top-level cell has completed, a further propagateFrom(c), for
\* any cell c, changes the Context and the solutions of no cell.
RepeatChangesNothing ==
    [][nCalls >= 2 =>
          \A o \in 1..Len(heap) : heap'[o].ctx = heap[o].ctx /\ heap'[o].sol = heap[o].sol]_vars

\* the stored Context of the equation cell at the largest index below i of
\* the array a that has one, the empty Context if there is none
SeedOf(h, a, i) ==
    LET J == {j \in 1..(i - 1) : h[a[j]].type = "equation" /\ IsSome(h[a[j]].ctx)}
    IN IF J = {} THEN {}
       ELSE Get(h[a[CHOOSE j \in J : \A k \in J : k <= j]].ctx)

\* C26: propagateFrom(c), c at index i of the array A, hands SeedOf(A, i)
\* to the first equation cell it resolves: what the first executor call of
\* the run is given, or what the cell passes on when no function is
\* registered and the run resolves that one cell.
SeedFromSameArray ==
    [][\A cellId \in Ids :
          PropagateAgain(cellId) =>
             LET found == findCellWithParent(heap, project.cells, cellId)
                 a == ArrayOf(heap, project.cells, found.arr)
                 seed == SeedOf(heap, a, found.index)
             IN found.found =>
                /\ runs' # <<>> => Get(runs'[1].res).input = seed
                /\ (runs' = <<>> /\ Len(EquationsFrom(heap, a, found.index)) = 1) =>
                      /\ IsSome(ev'.res)
                      /\ Get(ev'.res).input = seed
                      /\ Get(ev'.res).ret = seed]_vars

\* C26 witness: a second run, started at c5, gives c5 the Context stored in
\* c1, past the note c4 and the folder c2 whose child c3 stores another one
SeedFromSameArrayWitness ==
    /\ nCalls >= 2
    /\ ev.type = "start"
    /\ runs # <<>>
    /\ runs[1].resolved = <<5>>
    /\ Get(runs[1].res).input = {"a"}
    /\ heap[1].ctx = Some({"a"})
    /\ heap[3].ctx = Some({"a", "c"})
    /\ project.cells = <<1, 2, 4, 5>>

(***************************************************************************)
(* Properties of overlapping runs (SpecOverlap).                           *)
(***************************************************************************)
\* C27: at most one propagation run is in flight on the Project at any time.
AtMostOneRunInFlight ==
    Len(runs) <= 1

(***************************************************************************)
(* Properties of termination (SpecPacketsFair).                            *)
(***************************************************************************)
\* C35: when every executor call returns and the packets are finitely many,
\* the runs that were started complete, whatever packets are applied while
\* they are suspended; a run that a packet starts is suspended or has
\* completed when the handler returns, and a run ends in no other way than
\* by its walk reaching the end of its loops in the turn of an executor answer
RunsComplete ==
    /\ (runs # <<>>) ~> (runs = <<>>)
    /\ [][/\ (ev'.type = "packet" /\ Get(ev'.pkt).startedRun) =>
                \/ Len(runs') = Len(runs) + 1 /\ ~IsSome(ev'.fin)
                \/ Len(runs') = Len(runs) /\ IsSome(ev'.fin)
          /\ Len(runs') < Len(runs) =>
                /\ Len(runs') = Len(runs) - 1
                /\ ev'.type = "return"
                /\ IsSome(ev'.fin)]_vars

\* C35 witness: a run has completed after a packet changed the tree while
\* it was suspended
RunsCompleteWitness ==
    /\ ev.type = "return"
    /\ IsSome(ev.fin)
    /\ ~Get(ev.fin).clean
    /\ runs = <<>>
    /\ nPackets = 0

(***************************************************************************)
(* Properties of the search (SpecFind).                                    *)
(***************************************************************************)
\* the cell objects of array a and below, in document order: a cell, then
\* the cells of its folder, then the next cell
RECURSIVE Preorder(_, _)
Preorder(h, a) ==
    IF a = <<>> THEN <<>>
    ELSE <<Head(a)>>
         \o (IF h[Head(a)].type = "folder" THEN Preorder(h, h[Head(a)].kids) ELSE <<>>)
         \o Preorder(h, Tail(a))

\* the first cell with the id in document order, 0 if there is none
FirstInDocumentOrder(h, a, cellId) ==
    LET p == Preorder(h, a)
        at == {j \in 1..Len(p) : h[p[j]].id = cellId}
    IN IF at = {} THEN 0
       ELSE p[CHOOSE j \in at : \A k \in at : j <= k]

\* C37: findCell(id) returns the first cell with the id in pre-order
\* document order, null if there is none; findCellWithParent(id) returns
\* that cell with an array of the tree and the index at which the array
\* holds it, and null where findCell does
FindsFirstInDocumentOrder ==
    ev.type = "find" =>
        LET res == Get(ev.res)
            first == FirstInDocumentOrder(heap, project.cells, res.cellId)
            wp == res.withParent
        IN /\ res.cell.found <=> first # 0
           /\ res.cell.cell = first
           /\ wp.found <=> first # 0
           /\ wp.found =>
                 /\ wp.cell = first
                 /\ wp.arr = TopRef \/
                       (wp.arr.k = "folder" /\ wp.arr.o \in Reachable
                        /\ heap[wp.arr.o].type = "folder")
                 /\ wp.index \in 1..Len(ArrayOf(heap, project.cells, wp.arr))
                 /\ ArrayOf(heap, project.cells, wp.arr)[wp.index] = first

\* C37 witness: the id c1 is on a cell two folders deep and on a later
\* top-level cell; the search returns the nested one, with the inner
\* folder's array and the index it has there
FindsFirstInDocumentOrderWitness ==
    /\ ev.type = "find"
    /\ Get(ev.res).cellId = "c1"
    /\ Len(project.cells) = 2
    /\ heap[project.cells[2]].id = "c1"
    /\ LET wp == Get(ev.res).withParent IN
       /\ wp.found
       /\ wp.arr.k = "folder"
       /\ wp.arr.o # project.cells[1]
       /\ wp.index = 2
       /\ wp.cell # project.cells[2]
       /\ Get(ev.res).cell.cell = wp.cell

(***************************************************************************)
(* Properties of the messages (SpecMessages)                               *)
(***************************************************************************)
\* C38: a message that is no valid JSON is reported once on the errors$ of
\* the PacketManagerService and is not handed to the packet handler: the
\* Project tree, the runs, the cell states, the handler's own errors$ and the
\* count of packets still to come stay as they were; the socket, the
\* connection status and the reconnect state stay as they were, so the socket
\* that delivered it is still open for the next message.  A message that is
\* valid JSON is handed to the packet handler and is no transport error.
BadMessageIsRejectedAlone ==
    [][\A s \in 1..MaxSockets, json \in Messages :
          OnMessage(s, json) =>
             IF JSONparse(json).threw
             THEN /\ transportErrors' = transportErrors + 1
                  /\ ev'.type # "packet"
                  /\ UNCHANGED <<heap, project, runs, cellStates, outbox, errors,
                                 nPackets, isProcessingIncomingPacket>>
                  /\ UNCHANGED <<ws, sockets, reconnectAttempts, reconnectTimeout,
                                 isConnected>>
                  /\ sockets'[s].readyState = "OPEN"
             ELSE /\ transportErrors' = transportErrors
                  /\ ev'.type = "packet"
                  /\ Get(ev'.pkt).ptype = JSONparse(json).value.type
                  /\ nPackets' = nPackets - 1]_vars

\* C38 witness: after a message that was no JSON, a CellUpdate packet of the
\* same socket has been applied to the tree
BadMessageIsRejectedAloneWitness ==
    /\ transportErrors > 0
    /\ ev.type = "packet"
    /\ Get(ev.pkt).ptype = "CellUpdate"
    /\ Get(ev.pkt).applied
    /\ heap # InitHeap
    /\ sockets[1].readyState = "OPEN"

====
